---------------------------- MODULE Spec2Model ----------------------------
(***************************************************************************)
(* A model of the caching, rate-limiting HTTP client core of steam-mcp:    *)
(*   steam_mcp/client/steam_client.py  (RateLimiter, SteamClient)          *)
(*   steam_mcp/client/cache.py         (TTLCache)                          *)
(*                                                                         *)
(* Scheduling is asyncio's: one task runs at a time and a task gives up    *)
(* the processor only at an await that really suspends (a contended lock,  *)
(* asyncio.sleep, network I/O).  Every action below is one such run of a   *)
(* task from one suspension point to the next.  Time is a monotonic clock  *)
(* counted in whole seconds; computation between suspension points takes   *)
(* no time, and asyncio.sleep(d) resumes no earlier than d after it        *)
(* started.                                                                *)
(***************************************************************************)
EXTENDS Integers, Sequences, FiniteSets, TLC

VARIABLES
    now,                \* time.monotonic()
    idle_ticks,         \* how often time has passed with no timer pending
    last_request_time,  \* RateLimiter.last_request_time, per limiter
    lock_owner,         \* RateLimiter._lock: the task holding it, 0 when free
    lock_waiters,       \* RateLimiter._lock._waiters, FIFO
    pc,                 \* where each task is suspended
    op,                 \* the operation each task is running
    client,             \* the SteamClient each task calls through
    wake_at,            \* the instant a sleeping task's timer fires
    enable_cache,       \* SteamClient(enable_cache=...): self._cache is not None
    _cache,             \* TTLCache._cache: key -> CacheEntry
    _hits,              \* TTLCache._hits
    _misses,            \* TTLCache._misses
    args,               \* the arguments of each task's call
    heap,               \* the dict objects of each call: the caller's params
                        \* (P), get's copy cache_params (C), _request's own {} (R)
    refs,               \* which object get's cache_params and _request's params name
    attempt,            \* _request: the loop variable
    last_exception,     \* _request: last_exception
    result,             \* what the call returned or raised
    grants,             \* history: the grants of bare acquire() calls, as [limiter,
                        \* time]; of client calls the latest grant only
    acquired,           \* history: grants obtained by each task
    http_calls,         \* history: transport calls issued by each task
    outcomes,           \* history: what the transport answered to each attempt
    sleeps,             \* history: the backoff sleeps of each task
    lookup,             \* history: the cache lookup of each call, its key and
                        \* whether it was a hit, a miss or skipped
    stored,             \* history: the cache.set each call made
    done_before,        \* history: the calls that had ended when this one began
    start_time,         \* history: the clock when the call began
    cache_call,         \* history: the latest call made on the TTLCache itself,
                        \* its arguments and what it returned
    cache_history,      \* history: the calls made on the TTLCache itself: how
                        \* many, how many gets hit and missed, the latest set
                        \* of each (endpoint, params)
    _lock,              \* TTLCache._lock: the task holding it and its waiters
    cache_access,       \* history: the latest access to the map or the counters
                        \* of the TTLCache: the task, its operation, the holder
                        \* of the lock at that moment
    call_count          \* history: how often the body of a method wrapped by
                        \* the cached decorator has been entered

clockVars == <<now, idle_ticks>>
limiterVars == <<last_request_time, lock_owner, lock_waiters>>
taskVars == <<pc, op, client, wake_at>>
cacheVars == <<enable_cache, _cache, _hits, _misses>>
callVars == <<args, heap, refs, attempt, last_exception, result>>
historyVars == <<outcomes, sleeps, lookup, stored, done_before, start_time,
                 cache_call, cache_history>>
cacheLockVars == <<_lock, cache_access>>
vars == <<clockVars, limiterVars, taskVars, cacheVars, callVars,
          grants, acquired, http_calls, historyVars, cacheLockVars, call_count>>

---------------------------------------------------------------------------
(* Bounds of the model *)

NumTasks == 3
NumClients == 2
MaxIdleTicks == 1
\* the calls made in the model of the client
MaxCalls == 2
\* RateLimiter.min_interval = 1.0 / requests_per_second, in seconds
min_interval == 2
\* SteamClient(cache_max_size=...): TTLCache._max_size
max_size == 2

Tasks == 1..NumTasks
Callers == 1..MaxCalls
Clients == 1..NumClients
NoTask == 0

\* SteamClient(max_retries=3)
max_retries == 3

---------------------------------------------------------------------------
(* Python dicts: the items in insertion order, keys distinct.  An argument *)
(* that may be None is [none, items].                                      *)

None == [none |-> TRUE, items |-> <<>>]
Dict(items) == [none |-> FALSE, items |-> items]
\* bool(params): None and {} are false
Truthy(p) == ~p.none /\ p.items # <<>>

HasKey(d, k) == \E i \in 1..Len(d) : d[i][1] = k
DictGet(d, k) == d[CHOOSE i \in 1..Len(d) : d[i][1] = k][2]
\* d[k] = v
DictSet(d, k, v) ==
    IF HasKey(d, k)
    THEN [i \in 1..Len(d) |-> IF d[i][1] = k THEN <<k, v>> ELSE d[i]]
    ELSE Append(d, <<k, v>>)

\* the keys that occur, in string order
KeyOrder == <<"appid", "format", "key", "steamids", "vanityurl">>

\* the items in the order in which they were inserted
InsertionOrder(d) == d

\* json.dumps(..., sort_keys=True): the items in key order
sort_keys(d) ==
    LET ks == SelectSeq(KeyOrder, LAMBDA k : HasKey(d, k))
    IN  [i \in 1..Len(ks) |-> <<ks[i], DictGet(d, ks[i])>>]

\* the key leaves the params out
KeyOfEndpoint(endpoint, params) == [endpoint |-> endpoint, params |-> <<>>]

\* TTLCache._make_key: the digest of the canonical JSON text of
\* {"endpoint": endpoint, "params": params or {}}, taken to be collision free
_make_key(endpoint, params) ==
    [endpoint |-> endpoint,
     params |-> sort_keys(IF Truthy(params) THEN params.items ELSE <<>>)]

---------------------------------------------------------------------------
(* JSON payloads and the results of calls *)

Values == {"a", "b"}

\* a decoded response body: a mapping or not (a list), with its content
Json(kind, wrapped, v) == [kind |-> kind, wrapped |-> wrapped, v |-> v]
NoValue == Json("none", FALSE, "-")
Bodies == {Json("dict", FALSE, v) : v \in Values} \cup {Json("list", FALSE, "a")}

\* SteamClient._normalize_response: a payload that is no mapping becomes
\* {"data": payload}
_normalize_response(data) ==
    IF data.kind # "dict" THEN Json("dict", TRUE, data.v) ELSE data

NoStatus == 0

\* an exception kept in _request's last_exception, or None
Exc(kind, status) == [kind |-> kind, status |-> status]
NoneExc == Exc("None", NoStatus)

NoResult ==
    [kind |-> "none", value |-> NoValue, status |-> NoStatus, cause |-> "-",
     last |-> NoneExc]
Return(value) ==
    [kind |-> "return", value |-> value, status |-> NoStatus, cause |-> "-",
     last |-> NoneExc]
\* raise SteamAPIError(message, status_code): cause is the kind of message,
\* last the exception that the "failed after N attempts" message prints
SteamAPIError(cause, status, last) ==
    [kind |-> "raise", value |-> NoValue, status |-> status, cause |-> cause,
     last |-> last]

---------------------------------------------------------------------------
(* cache.py: CacheCategory and TTLCache *)

APP_DETAILS == 3600
GLOBAL_ACHIEVEMENTS == 3600
GAME_SCHEMA == 3600
PLAYER_SUMMARY == 300
PLAYER_GAMES == 300
CURRENT_PLAYERS == 60
NEWS == 300
DEFAULT == 300

CacheEntry(value, expires_at) == [value |-> value, expires_at |-> expires_at]

Without(m, ks) == [k \in DOMAIN m \ ks |-> m[k]]

\* an entry is stale from its expiry instant on
ExpiredFromExpiry(entry) == now >= entry.expires_at

\* no entry is ever stale
NeverExpired(entry) == FALSE

\* time.monotonic() > entry.expires_at
Expired(entry) == now > entry.expires_at

\* a get that finds an expired entry removes it and counts nothing
GetExpiredUncounted(endpoint, params) ==
    LET key == _make_key(endpoint, params) IN
    IF key \notin DOMAIN _cache
    THEN [hit |-> FALSE, value |-> NoValue, cache |-> _cache,
          hits |-> _hits, misses |-> _misses + 1]
    ELSE IF now > _cache[key].expires_at
    THEN [hit |-> FALSE, value |-> NoValue, cache |-> Without(_cache, {key}),
          hits |-> _hits, misses |-> _misses]
    ELSE [hit |-> TRUE, value |-> _cache[key].value, cache |-> _cache,
          hits |-> _hits + 1, misses |-> _misses]

\* TTLCache.get: (hit, value) and the cache's state afterwards
TTLCache_get(endpoint, params) ==
    LET key == _make_key(endpoint, params) IN
    IF key \notin DOMAIN _cache
    THEN [hit |-> FALSE, value |-> NoValue, cache |-> _cache,
          hits |-> _hits, misses |-> _misses + 1]
    ELSE IF Expired(_cache[key])
    THEN [hit |-> FALSE, value |-> NoValue, cache |-> Without(_cache, {key}),
          hits |-> _hits, misses |-> _misses + 1]
    ELSE [hit |-> TRUE, value |-> _cache[key].value, cache |-> _cache,
          hits |-> _hits + 1, misses |-> _misses]

\* the sweep makes room: with no expired entry to drop it evicts the entry
\* that expires soonest
EvictToFit(m) ==
    LET kept == Without(m, {k \in DOMAIN m : Expired(m[k])}) IN
    IF Cardinality(DOMAIN kept) >= max_size
    THEN Without(kept, {CHOOSE k \in DOMAIN kept :
                           \A j \in DOMAIN kept :
                               kept[k].expires_at <= kept[j].expires_at})
    ELSE kept

\* TTLCache._cleanup_expired
_cleanup_expired(m) == Without(m, {k \in DOMAIN m : Expired(m[k])})

\* an entry already in the map is kept: only a new key is stored
SetKeepsExisting(endpoint, params, value, ttl) ==
    LET key == _make_key(endpoint, params)
        expires_at == now + ttl
        m == IF Cardinality(DOMAIN _cache) >= max_size
             THEN _cleanup_expired(_cache) ELSE _cache
    IN  [k \in DOMAIN m \cup {key} |->
            IF k \in DOMAIN m THEN m[k] ELSE CacheEntry(value, expires_at)]

\* the sweep runs only once the map holds more than max_size entries
SetSweepsAboveMax(endpoint, params, value, ttl) ==
    LET key == _make_key(endpoint, params)
        expires_at == now + ttl
        m == IF Cardinality(DOMAIN _cache) > max_size
             THEN _cleanup_expired(_cache) ELSE _cache
    IN  [k \in DOMAIN m \cup {key} |->
            IF k = key THEN CacheEntry(value, expires_at) ELSE m[k]]

\* TTLCache.set with an explicit ttl: the map afterwards
TTLCache_set(endpoint, params, value, ttl) ==
    LET key == _make_key(endpoint, params)
        expires_at == now + ttl
        m == IF Cardinality(DOMAIN _cache) >= max_size
             THEN _cleanup_expired(_cache) ELSE _cache
    IN  [k \in DOMAIN m \cup {key} |->
            IF k = key THEN CacheEntry(value, expires_at) ELSE m[k]]

---------------------------------------------------------------------------
(* SteamClient: the TTL policy table *)

DEFAULT_CACHE_TTLS ==
    [appdetails |-> APP_DETAILS,
     GetSchemaForGame |-> GAME_SCHEMA,
     GetGlobalAchievementPercentagesForApp |-> GLOBAL_ACHIEVEMENTS,
     GetPlayerSummaries |-> PLAYER_SUMMARY,
     GetOwnedGames |-> PLAYER_GAMES,
     GetRecentlyPlayedGames |-> PLAYER_GAMES,
     GetNumberOfCurrentPlayers |-> CURRENT_PLAYERS,
     GetNewsForApp |-> NEWS]

\* every name gets the default
DefaultTtlAlways(method, endpoint) == DEFAULT

\* SteamClient._get_cache_ttl(method, endpoint); no endpoint is ""
_get_cache_ttl(method, endpoint) ==
    LET key == IF endpoint # "" THEN endpoint ELSE method
    IN  IF key \in DOMAIN DEFAULT_CACHE_TTLS THEN DEFAULT_CACHE_TTLS[key] ELSE DEFAULT

\* the Steam Web API methods called in the model, as (interface, method, version)
Endpoints ==
    {<<"ISteamUserStats", "GetNumberOfCurrentPlayers", 1>>,
     <<"ISteamUser", "ResolveVanityURL", 1>>}

\* cache_key = f"{interface}.{method}.v{version}"
cache_key(e) == e

\* the params a caller passes: None or a dict of one item
ParamChoices == {None, Dict(<< <<"appid", "1">> >>), Dict(<< <<"appid", "2">> >>)}

API_KEY == "KEY"

---------------------------------------------------------------------------
(* What the transport answers to one attempt *)

Statuses == {200, 401, 403, 404, 429, 503}

Response(status, html, body) ==
    [kind |-> "response", status |-> status, html |-> html, body |-> body]
\* httpx.TimeoutException
Timeout == [kind |-> "timeout", status |-> NoStatus, html |-> FALSE, body |-> NoValue]
\* any other httpx.HTTPError (a connection error, ...)
TransportError == [kind |-> "error", status |-> NoStatus, html |-> FALSE, body |-> NoValue]

Outcomes ==
    {Response(200, FALSE, b) : b \in Bodies}
    \cup {Response(s, FALSE, NoValue) : s \in Statuses \ {200}}
    \cup {Response(s, TRUE, NoValue) : s \in {200, 404, 429, 503}}
    \cup {Timeout, TransportError}

IsSuccess(o) == o.kind = "response" /\ o.status = 200 /\ ~o.html
Is5xx(o) == o.kind = "response" /\ ~o.html /\ o.status >= 500
Is429(o) == o.kind = "response" /\ ~o.html /\ o.status = 429
IsTimeout(o) == o.kind = "timeout"
\* the content type is not looked at
ContentTypeIgnored(o) == FALSE

\* "text/html" in content_type, lines 206-207
IsHtml(o) == o.kind = "response" /\ o.html
IsTransient(o) == Is5xx(o) \/ Is429(o) \/ IsTimeout(o)


---------------------------------------------------------------------------
(* TTLCache called directly: get, set, invalidate, clear, stats *)

\* an optional ttl argument: None or a number of seconds
NoTtl == [none |-> TRUE, v |-> 0]
Ttl(n) == [none |-> FALSE, v |-> n]

\* TTLCache(default_ttl=CacheCategory.DEFAULT.value), as the client builds it
default_ttl == DEFAULT

\* ttl if ttl is not None else self._default_ttl, line 126
EffectiveTtl(ttl) == IF ttl.none THEN default_ttl ELSE ttl.v

\* the key is dropped only if its entry has expired
InvalidateExpiredOnly(endpoint, params) ==
    LET key == _make_key(endpoint, params)
        there == key \in DOMAIN _cache /\ Expired(_cache[key])
    IN  [removed |-> there,
         cache |-> IF there THEN Without(_cache, {key}) ELSE _cache]

\* an entry that has expired counts as absent, as it does for get
InvalidateUnexpiredOnly(endpoint, params) ==
    LET key == _make_key(endpoint, params)
        there == key \in DOMAIN _cache /\ ~Expired(_cache[key])
    IN  [removed |-> there,
         cache |-> IF key \in DOMAIN _cache THEN Without(_cache, {key}) ELSE _cache]

\* TTLCache.invalidate: what it returns and the map afterwards
TTLCache_invalidate(endpoint, params) ==
    LET key == _make_key(endpoint, params) IN
    IF key \in DOMAIN _cache
    THEN [removed |-> TRUE, cache |-> Without(_cache, {key})]
    ELSE [removed |-> FALSE, cache |-> _cache]

\* the count leaves out the entries that have expired
ClearCountsUnexpired ==
    [count |-> Cardinality({k \in DOMAIN _cache : ~Expired(_cache[k])}),
     cache |-> <<>>]

\* TTLCache.clear: the count it returns and the map afterwards
TTLCache_clear == [count |-> Cardinality(DOMAIN _cache), cache |-> <<>>]

\* SteamClient.clear_cache, lines 155-157
clear_cache ==
    IF enable_cache THEN TTLCache_clear ELSE [count |-> 0, cache |-> _cache]

\* self._hits / (self._hits + self._misses) * 100 rounded to one decimal, in
\* tenths of a percent (no quotient of the model falls on a rounding tie)
HitRate(hits, misses) ==
    IF hits + misses > 0
    THEN (2000 * hits + (hits + misses)) \div (2 * (hits + misses))
    ELSE 0

\* TTLCache.stats
stats ==
    [size |-> Cardinality(DOMAIN _cache), hits |-> _hits, misses |-> _misses,
     hit_rate |-> HitRate(_hits, _misses)]

\* the parameter map that params stands for: its items as a set, None being
\* the empty map
ItemSet(params) == {params.items[i] : i \in 1..Len(params.items)}

NoCacheCall ==
    [op |-> "none", endpoint |-> "", params |-> None, value |-> NoValue,
     ttl |-> NoTtl, hit |-> FALSE, ret |-> NoValue, removed |-> FALSE,
     count |-> 0]
NoCacheHistory == [calls |-> 0, hits |-> 0, misses |-> 0, sets |-> <<>>]

\* the history once one more call has been made
OneMoreCall == [cache_history EXCEPT !.calls = @ + 1]

\* all of the model that a call on the cache leaves alone
CacheFrame ==
    UNCHANGED <<clockVars, limiterVars, taskVars, enable_cache, callVars, grants,
                acquired, http_calls, outcomes, sleeps, lookup, stored,
                done_before, start_time, cacheLockVars, call_count>>

\* await cache.get(endpoint, params)
CacheGet(endpoint, params) ==
    LET g == TTLCache_get(endpoint, params) IN
    /\ _cache' = g.cache
    /\ _hits' = g.hits
    /\ _misses' = g.misses
    /\ cache_call' = [NoCacheCall EXCEPT !.op = "get", !.endpoint = endpoint,
                          !.params = params, !.hit = g.hit,
                          !.ret = g.value]
    /\ cache_history' = [OneMoreCall EXCEPT
                             !.hits = IF g.hit THEN @ + 1 ELSE @,
                             !.misses = IF g.hit THEN @ ELSE @ + 1]
    /\ CacheFrame

\* await cache.set(endpoint, params, value, ttl)
CacheSet(endpoint, params, value, ttl) ==
    LET id == <<endpoint, ItemSet(params)>>
        set == [value |-> value, expires_at |-> now + EffectiveTtl(ttl), live |-> TRUE]
        sets == cache_history.sets
    IN
    /\ _cache' = TTLCache_set(endpoint, params, value, EffectiveTtl(ttl))
    /\ cache_call' = [NoCacheCall EXCEPT !.op = "set", !.endpoint = endpoint,
                          !.params = params, !.value = value, !.ttl = ttl]
    /\ cache_history' = [OneMoreCall EXCEPT !.sets =
                             [i \in DOMAIN sets \cup {id} |->
                                 IF i = id THEN set ELSE sets[i]]]
    /\ CacheFrame
    /\ UNCHANGED <<_hits, _misses>>

\* await cache.invalidate(endpoint, params)
CacheInvalidate(endpoint, params) ==
    LET r == TTLCache_invalidate(endpoint, params)
        id == <<endpoint, ItemSet(params)>>
        sets == cache_history.sets
    IN
    /\ _cache' = r.cache
    /\ cache_call' = [NoCacheCall EXCEPT !.op = "invalidate", !.endpoint = endpoint,
                          !.params = params, !.removed = r.removed]
    /\ cache_history' = [OneMoreCall EXCEPT !.sets =
                             [i \in DOMAIN sets |->
                                 IF i = id THEN [sets[i] EXCEPT !.live = FALSE]
                                 ELSE sets[i]]]
    /\ CacheFrame
    /\ UNCHANGED <<_hits, _misses>>

\* await cache.clear()
CacheClear ==
    LET r == TTLCache_clear
        sets == cache_history.sets
    IN
    /\ _cache' = r.cache
    /\ cache_call' = [NoCacheCall EXCEPT !.op = "clear",
                          !.count = r.count]
    /\ cache_history' = [OneMoreCall EXCEPT !.sets =
                             [i \in DOMAIN sets |-> [sets[i] EXCEPT !.live = FALSE]]]
    /\ CacheFrame
    /\ UNCHANGED <<_hits, _misses>>

\* await client.clear_cache()
ClearCache ==
    LET r == clear_cache
        sets == cache_history.sets
    IN
    /\ _cache' = r.cache
    /\ cache_call' = [NoCacheCall EXCEPT !.op = "clear_cache",
                          !.count = r.count]
    /\ cache_history' = [OneMoreCall EXCEPT !.sets =
                             [i \in DOMAIN sets |-> [sets[i] EXCEPT !.live = FALSE]]]
    /\ CacheFrame
    /\ UNCHANGED <<_hits, _misses>>
---------------------------------------------------------------------------
(* SteamClient.__init__: the rate limiter of a client *)

\* every client shares one limiter
SharedRateLimiter(c) == 1

\* self.rate_limiter = RateLimiter(requests_per_second): a limiter of its own,
\* named here by the client that constructed it
rate_limiter(c) == c

Limiters == {rate_limiter(c) : c \in Clients}

---------------------------------------------------------------------------
(* RateLimiter.acquire *)

\* sleep for one second less than needed
ShortSleep(time_since_last) == min_interval - time_since_last - 1

\* asyncio.sleep(self.min_interval - time_since_last)
SleepDuration(time_since_last) == min_interval - time_since_last

\* the lock is given up before sleeping
LockReleasedForSleep(l, t) ==
    IF lock_waiters[l] = <<>>
    THEN /\ lock_owner' = [lock_owner EXCEPT ![l] = NoTask]
         /\ UNCHANGED lock_waiters
    ELSE /\ lock_owner' = [lock_owner EXCEPT ![l] = Head(lock_waiters[l])]
         /\ lock_waiters' = [lock_waiters EXCEPT ![l] = Tail(lock_waiters[l])]

\* the await asyncio.sleep(...) is inside "async with self._lock": the
\* sleeping task keeps the lock
LockAcrossSleep(l, t) ==
    /\ lock_owner' = [lock_owner EXCEPT ![l] = t]
    /\ UNCHANGED lock_waiters

\* the lock is freed but the first waiter is never woken
ReleaseNoWakeup(l) ==
    /\ lock_owner' = [lock_owner EXCEPT ![l] = NoTask]
    /\ UNCHANGED lock_waiters

\* asyncio.Lock.release at the end of "async with": the lock passes to the
\* first waiter, which stays first in line until it runs
Release(l) ==
    IF lock_waiters[l] = <<>>
    THEN /\ lock_owner' = [lock_owner EXCEPT ![l] = NoTask]
         /\ UNCHANGED lock_waiters
    ELSE /\ lock_owner' = [lock_owner EXCEPT ![l] = Head(lock_waiters[l])]
         /\ lock_waiters' = [lock_waiters EXCEPT ![l] = Tail(lock_waiters[l])]

\* acquire() has returned: a bare acquire() is over; inside a client call the
\* transport request is sent next (lines 201, 393, 430) and the task waits
\* for the answer
AfterAcquire(o) == IF o = "acquire" THEN "done" ELSE "await_http"

\* line 67 and the end of the with block: record the grant, free the lock,
\* return to the caller; o is the operation the task is running
Grant(t, l, o) ==
    /\ last_request_time' = [last_request_time EXCEPT ![l] = now]
    /\ grants' = IF o = "acquire"
                 THEN Append(grants, [limiter |-> l, time |-> now])
                 ELSE <<[limiter |-> l, time |-> now]>>
    /\ acquired' = [acquired EXCEPT ![t] = @ + 1]
    /\ Release(l)
    /\ pc' = [pc EXCEPT ![t] = AfterAcquire(o)]
    /\ http_calls' = [http_calls EXCEPT ![t] = IF o = "acquire" THEN @ ELSE @ + 1]
    /\ wake_at' = [wake_at EXCEPT ![t] = 0]

\* lines 63-67, run by the task that has just taken the lock
AcquireLocked(t, l, o) ==
    LET time_since_last == now - last_request_time[l] IN
    IF time_since_last < min_interval
    THEN /\ pc' = [pc EXCEPT ![t] = "sleep_limiter"]
         /\ wake_at' = [wake_at EXCEPT ![t] = now + SleepDuration(time_since_last)]
         /\ LockAcrossSleep(l, t)
         /\ UNCHANGED <<last_request_time, grants, acquired, http_calls>>
    ELSE Grant(t, l, o)

\* line 62, "async with self._lock": take the lock when it is free, else queue
AcquireEnter(t, l, o) ==
    IF lock_owner[l] = NoTask /\ lock_waiters[l] = <<>>
    THEN AcquireLocked(t, l, o)
    ELSE /\ lock_waiters' = [lock_waiters EXCEPT ![l] = Append(@, t)]
         /\ pc' = [pc EXCEPT ![t] = "wait_lock"]
         /\ wake_at' = [wake_at EXCEPT ![t] = 0]
         /\ UNCHANGED <<last_request_time, lock_owner, grants, acquired, http_calls>>

\* tasks are numbered in the order in which they start
NextToStart(t) == pc[t] = "idle" /\ \A u \in Tasks : u < t => pc[u] # "idle"

\* a task calls acquire() on the limiter of a client
StartAcquire(t, c) ==
    /\ pc[t] = "idle"
    /\ op' = [op EXCEPT ![t] = "acquire"]
    /\ client' = [client EXCEPT ![t] = c]
    /\ AcquireEnter(t, rate_limiter(c), "acquire")
    /\ UNCHANGED <<clockVars, cacheVars, callVars, historyVars,
                   cacheLockVars, call_count>>

\* a queued task is handed the lock and runs lines 63-67
LockGranted(t) ==
    /\ pc[t] = "wait_lock"
    /\ lock_owner[rate_limiter(client[t])] = t
    /\ AcquireLocked(t, rate_limiter(client[t]), op[t])
    /\ UNCHANGED <<clockVars, op, client, cacheVars, callVars, historyVars,
                   cacheLockVars, call_count>>

\* the limiter's sleep is over: line 67
LimiterWake(t) ==
    /\ pc[t] = "sleep_limiter"
    /\ now >= wake_at[t]
    /\ Grant(t, rate_limiter(client[t]), op[t])
    /\ UNCHANGED <<clockVars, op, client, cacheVars, callVars, historyVars,
                   cacheLockVars, call_count>>

---------------------------------------------------------------------------
(* The clock *)

Sleeping(t) == pc[t] \in {"sleep_limiter", "backoff"}

TimerPending == \E t \in Tasks : Sleeping(t) /\ now < wake_at[t]

\* time passes while a timer is pending
TickWaiting ==
    /\ TimerPending
    /\ now' = now + 1
    /\ UNCHANGED <<idle_ticks, limiterVars, taskVars, cacheVars, callVars,
                   grants, acquired, http_calls, historyVars,
                   cacheLockVars, call_count>>

\* time passes with nobody waiting for it (a late wake-up, a pause between calls)
TickIdle ==
    /\ idle_ticks < MaxIdleTicks
    /\ ~TimerPending
    /\ now' = now + 1
    /\ idle_ticks' = idle_ticks + 1
    /\ UNCHANGED <<limiterVars, taskVars, cacheVars, callVars,
                   grants, acquired, http_calls, historyVars,
                   cacheLockVars, call_count>>

\* time passes until a cached entry is at, or just past, its expiry
TickExpire ==
    /\ idle_ticks < MaxIdleTicks
    /\ \E k \in DOMAIN _cache : \E d \in {0, 1} :
           /\ now < _cache[k].expires_at + d
           /\ now' = _cache[k].expires_at + d
    /\ idle_ticks' = idle_ticks + 1
    /\ UNCHANGED <<limiterVars, taskVars, cacheVars, callVars,
                   grants, acquired, http_calls, historyVars,
                   cacheLockVars, call_count>>

---------------------------------------------------------------------------
(* TTLCache._lock: one cache called by concurrent tasks.  Here every await *)
(* of cache.py is a point where the running task may be suspended: the     *)
(* entry to "async with self._lock" and the call of _cleanup_expired.      *)
(* asyncio suspends at no more points than these, so what the event loop   *)
(* can do is among the behaviours below.                                   *)

Unlocked == [owner |-> NoTask, waiters |-> <<>>]
NoAccess == [task |-> NoTask, op |-> "none", holder |-> NoTask]

\* the arguments of a call on the cache
CacheArgs(endpoint, params, value, ttl) ==
    [endpoint |-> endpoint, params |-> params, bypass |-> FALSE,
     value |-> value, ttl |-> ttl]

\* the sweep takes the lock itself: it waits whenever the lock is held, by
\* its own task too, the lock not being reentrant
SweepAcquiresLock(owner, t) == owner # NoTask

\* _cleanup_expired has no "async with self._lock" of its own (lines 176-180):
\* called with the lock held, it never waits for it
SweepWaitsForLock(owner, t) == FALSE

\* asyncio.Lock.acquire at "async with self._lock": the lock is taken when it
\* is free and nobody is queued, else the task queues
CacheLockAcquire(t) ==
    IF _lock.owner = NoTask /\ _lock.waiters = <<>>
    THEN /\ _lock' = [_lock EXCEPT !.owner = t]
         /\ pc' = [pc EXCEPT ![t] = "cache_locked"]
    ELSE /\ _lock' = [_lock EXCEPT !.waiters = Append(@, t)]
         /\ pc' = [pc EXCEPT ![t] = "wait_cache_lock"]

\* asyncio.Lock.release at the end of "async with": the lock passes to the
\* first waiter
CacheLockRelease ==
    _lock' = IF _lock.waiters = <<>> THEN Unlocked
             ELSE [owner |-> Head(_lock.waiters), waiters |-> Tail(_lock.waiters)]

\* what a call on the cache leaves alone
LockedFrame ==
    UNCHANGED <<clockVars, limiterVars, client, wake_at, enable_cache, heap, refs,
                attempt, last_exception, result, grants, acquired, http_calls,
                historyVars, call_count>>

\* the access made by task t in this step
Accessed(t, o) == cache_access' = [task |-> t, op |-> o, holder |-> _lock.owner]

\* a task calls get, set, invalidate or clear: lines 91, 125-127, 149 and the
\* entry to the with block
CacheCall(t, o, a) ==
    /\ NextToStart(t)
    /\ op' = [op EXCEPT ![t] = o]
    /\ args' = [args EXCEPT ![t] = a]
    /\ CacheLockAcquire(t)
    /\ UNCHANGED <<_cache, _hits, _misses, cache_access>>
    /\ LockedFrame

\* a queued task is handed the lock
CacheLockGranted(t) ==
    /\ pc[t] = "wait_cache_lock"
    /\ _lock.owner = t
    /\ pc' = [pc EXCEPT ![t] = "cache_locked"]
    /\ UNCHANGED <<op, args, _lock, _cache, _hits, _misses, cache_access>>
    /\ LockedFrame

\* if len(self._cache) >= self._max_size, line 131
AtCapacity == Cardinality(DOMAIN _cache) >= max_size

\* the body of the with block of get, invalidate and clear, and of a set
\* below capacity, up to the release of the lock
CacheBody(t) ==
    /\ pc[t] = "cache_locked"
    /\ ~(op[t] = "set" /\ AtCapacity)
    /\ LET a == args[t]
           g == TTLCache_get(a.endpoint, a.params)
       IN  /\ _cache' = CASE op[t] = "get" -> g.cache
                          [] op[t] = "set" ->
                                 TTLCache_set(a.endpoint, a.params, a.value,
                                              EffectiveTtl(a.ttl))
                          [] op[t] = "invalidate" ->
                                 TTLCache_invalidate(a.endpoint, a.params).cache
                          [] op[t] = "clear" -> TTLCache_clear.cache
           /\ _hits' = IF op[t] = "get" THEN g.hits ELSE _hits
           /\ _misses' = IF op[t] = "get" THEN g.misses ELSE _misses
    /\ Accessed(t, op[t])
    /\ CacheLockRelease
    /\ pc' = [pc EXCEPT ![t] = "done"]
    /\ UNCHANGED <<op, args>>
    /\ LockedFrame

\* set at capacity, lines 131-132: the size is read and _cleanup_expired called
CacheSetFull(t) ==
    /\ pc[t] = "cache_locked"
    /\ op[t] = "set" /\ AtCapacity
    /\ Accessed(t, "set")
    /\ IF SweepWaitsForLock(_lock.owner, t)
       THEN /\ _lock' = [_lock EXCEPT !.waiters = Append(@, t)]
            /\ pc' = [pc EXCEPT ![t] = "sweep_wait_lock"]
       ELSE /\ pc' = [pc EXCEPT ![t] = "sweep"]
            /\ UNCHANGED _lock
    /\ UNCHANGED <<op, args, _cache, _hits, _misses>>
    /\ LockedFrame

\* _cleanup_expired, then line 134 and the release of the lock
CacheSweep(t) ==
    /\ pc[t] = "sweep"
    /\ LET a == args[t] IN
       _cache' = TTLCache_set(a.endpoint, a.params, a.value, EffectiveTtl(a.ttl))
    /\ Accessed(t, "sweep")
    /\ CacheLockRelease
    /\ pc' = [pc EXCEPT ![t] = "done"]
    /\ UNCHANGED <<op, args, _hits, _misses>>
    /\ LockedFrame

\* cache.stats, lines 182-194: a property, read in one run
CacheStats(t) ==
    /\ NextToStart(t)
    /\ op' = [op EXCEPT ![t] = "stats"]
    /\ pc' = [pc EXCEPT ![t] = "done"]
    /\ Accessed(t, "stats")
    /\ UNCHANGED <<args, _lock, _cache, _hits, _misses>>
    /\ LockedFrame
---------------------------------------------------------------------------
(* SteamClient.resolve_vanity_url and SteamClient.get_player_summaries:    *)
(* what they make of the outcome of the get they run.  The body of a JSON  *)
(* object is a function from its keys; {} is the empty function.           *)

EmptyObject == <<>>

\* the dict that get returned: a payload that was no mapping arrives wrapped
\* as {"data": payload} (_normalize_response)
ResultDict(j) == IF j.wrapped THEN [data |-> j.v] ELSE j.v

\* d.get(k, default)
GetOr(d, k, default) == IF k \in DOMAIN d THEN d[k] ELSE default

\* a string, and a list, that a convenience method returns
Str(s) == Json("str", FALSE, s)
List(l) == Json("list", FALSE, l)

\* raise ValueError("Maximum 100 Steam IDs per request"), line 481
ValueError ==
    [kind |-> "raise_other", value |-> NoValue, status |-> NoStatus,
     cause |-> "value_error", last |-> NoneExc]

\* the error of the get goes on to the caller
VanityErrorPropagates(r) ==
    IF r.kind = "raise" THEN r
    ELSE LET response == GetOr(ResultDict(r.value), "response", EmptyObject) IN
         IF "success" \in DOMAIN response /\ response.success = 1
         THEN Return(IF "steamid" \in DOMAIN response
                     THEN Str(response.steamid) ELSE NoValue)
         ELSE Return(NoValue)

\* lines 456-462 of resolve_vanity_url, r being what get returned or raised
resolve_vanity_url_result(r) ==
    IF r.kind = "raise" THEN Return(NoValue)
    ELSE LET response == GetOr(ResultDict(r.value), "response", EmptyObject) IN
         IF "success" \in DOMAIN response /\ response.success = 1
         THEN Return(IF "steamid" \in DOMAIN response
                     THEN Str(response.steamid) ELSE NoValue)
         ELSE Return(NoValue)

\* line 490 of get_player_summaries; a SteamAPIError of get goes on to the caller
get_player_summaries_result(r) ==
    IF r.kind = "raise" THEN r
    ELSE LET response == GetOr(ResultDict(r.value), "response", EmptyObject) IN
         Return(List(GetOr(response, "players", <<>>)))

\* what the call of o makes of the outcome r of its get or post
Finish(o, r) ==
    CASE o = "resolve_vanity_url" -> resolve_vanity_url_result(r)
      [] o = "get_player_summaries" -> get_player_summaries_result(r)
      [] OTHER -> r
---------------------------------------------------------------------------
(* SteamClient._request *)

\* the client whose calls are modelled
SpecClient == CHOOSE c \in Clients : TRUE

\* a 429 backs off as a timeout does
Backoff429AsTimeout(a) == 2 ^ a

\* wait_time = 2 ** (attempt + 1), line 214
Backoff429(a) == 2 ^ (a + 1)

\* asyncio.sleep(2 ** attempt), lines 237 and 248
BackoffTransient(a) == 2 ^ a

\* if attempt < self.max_retries - 1, lines 236 and 247
SleepsBeforeRetry(a) == a < max_retries - 1

\* a timeout or a 5xx: remember it, back off unless this was the last attempt
RetryTransient(a, e) ==
    [next |-> "retry", result |-> NoResult,
     sleep |-> IF SleepsBeforeRetry(a) THEN BackoffTransient(a) ELSE 0,
     last_exception |-> e]

\* a 401 is retried like a 5xx
Retried401(a, exc, o) == RetryTransient(a, exc)

\* lines 225-226: raise SteamAPIError("Invalid API key", 401)
OnStatus401(a, exc, o) ==
    [next |-> "raise", result |-> SteamAPIError("invalid_key", o.status, NoneExc),
     sleep |-> 0, last_exception |-> exc]

\* a 5xx is raised at once
Raise5xx(a, exc, o) ==
    [next |-> "raise", result |-> SteamAPIError("http_status", o.status, NoneExc),
     sleep |-> 0, last_exception |-> Exc("status", o.status)]

\* lines 240-250: response.raise_for_status() raised HTTPStatusError
OnHTTPStatusError(a, exc, o) ==
    IF o.status >= 500
    THEN RetryTransient(a, Exc("status", o.status))
    ELSE [next |-> "raise",
          result |-> SteamAPIError("http_status", o.status, NoneExc),
          sleep |-> 0, last_exception |-> Exc("status", o.status)]

\* lines 205-253: what one attempt's answer o makes of the request, given the
\* loop variable a and last_exception exc
HandleAttempt(a, exc, o) ==
    IF o.kind = "timeout" THEN RetryTransient(a, Exc("timeout", NoStatus))
    ELSE IF o.kind = "error"
    THEN [next |-> "raise", result |-> SteamAPIError("transport", NoStatus, NoneExc),
          sleep |-> 0, last_exception |-> exc]
    ELSE IF IsHtml(o)
    THEN [next |-> "raise", result |-> SteamAPIError("html", o.status, NoneExc),
          sleep |-> 0, last_exception |-> exc]
    ELSE IF o.status = 429
    THEN [next |-> "retry", result |-> NoResult, sleep |-> Backoff429(a),
          last_exception |-> exc]
    ELSE IF o.status = 403
    THEN [next |-> "raise", result |-> SteamAPIError("forbidden", o.status, NoneExc),
          sleep |-> 0, last_exception |-> exc]
    ELSE IF o.status = 401
    THEN OnStatus401(a, exc, o)
    ELSE IF o.status < 200 \/ o.status >= 300
    THEN OnHTTPStatusError(a, exc, o)
    ELSE [next |-> "return", result |-> Return(_normalize_response(o.body)),
          sleep |-> 0, last_exception |-> exc]

\* the range has one value more
OneMoreAttempt(a) == a <= max_retries

\* a in range(self.max_retries), line 197
InRange(a) == a < max_retries

\* the limiter is acquired once, before the loop: a retry goes straight to
\* the transport
LoopHeadAcquiresOnce(t, a, exc, o) ==
    IF InRange(a) /\ a = 0
    THEN /\ AcquireEnter(t, rate_limiter(SpecClient), o)
         /\ UNCHANGED result
    ELSE IF InRange(a)
    THEN /\ pc' = [pc EXCEPT ![t] = "await_http"]
         /\ http_calls' = [http_calls EXCEPT ![t] = @ + 1]
         /\ wake_at' = [wake_at EXCEPT ![t] = 0]
         /\ UNCHANGED <<limiterVars, grants, acquired, result>>
    ELSE /\ pc' = [pc EXCEPT ![t] = "done"]
         /\ result' = [result EXCEPT ![t] =
                Finish(o, SteamAPIError("exhausted", NoStatus, exc))]
         /\ wake_at' = [wake_at EXCEPT ![t] = 0]
         /\ UNCHANGED <<limiterVars, grants, acquired, http_calls>>

\* the head of "for attempt in range(self.max_retries)" for attempt a: line 198,
\* or lines 255-257 when the range is used up
LoopHead(t, a, exc, o) ==
    IF InRange(a)
    THEN /\ AcquireEnter(t, rate_limiter(SpecClient), o)
         /\ UNCHANGED result
    ELSE /\ pc' = [pc EXCEPT ![t] = "done"]
         /\ result' = [result EXCEPT ![t] =
                Finish(o, SteamAPIError("exhausted", NoStatus, exc))]
         /\ wake_at' = [wake_at EXCEPT ![t] = 0]
         /\ UNCHANGED <<limiterVars, grants, acquired, http_calls>>

\* lines 191-193 on the dict that _request's params names
WithKeyAndFormat(d) == DictSet(DictSet(d, "key", API_KEY), "format", "json")

\* cache_params names the caller's own dict
AliasParams(p) == IF Truthy(p) THEN "P" ELSE "N"

\* cache_params = dict(params) if params else None, line 312: a copy (C) or None (N)
CacheParamsRef(p) == IF Truthy(p) THEN "C" ELSE "N"

\* the objects of a call before _request runs: the caller's params p, the copy
Objects(p) ==
    [P |-> p, C |-> IF Truthy(p) THEN Dict(p.items) ELSE None,
     R |-> None, N |-> None]

\* params = params or {}, line 191: the caller's dict itself, or a new one
RequestParamsRef(p) == IF Truthy(p) THEN "P" ELSE "R"

\* the objects once lines 191-193 have run
ObjectsInRequest(p) ==
    LET h == Objects(p) IN
    IF Truthy(p)
    THEN [h EXCEPT !.P = Dict(WithKeyAndFormat(p.items))]
    ELSE [h EXCEPT !.R = Dict(WithKeyAndFormat(<<>>))]

---------------------------------------------------------------------------
(* SteamClient.get and SteamClient.post *)

NotStored == [set |-> FALSE, key |-> _make_key(<<>>, None), ttl |-> 0, at |-> 0,
              value |-> NoValue]
NoLookup == [result |-> "none", key |-> _make_key(<<>>, None)]
NoArgs == [endpoint |-> <<>>, params |-> None, bypass |-> FALSE]

\* _request from line 191 to its first suspension, for a call with params p
RequestStart(t, p, o) ==
    /\ heap' = [heap EXCEPT ![t] = ObjectsInRequest(p)]
    /\ attempt' = [attempt EXCEPT ![t] = 0]
    /\ last_exception' = [last_exception EXCEPT ![t] = NoneExc]
    /\ LoopHead(t, 0, NoneExc, o)

\* a caller begins call t with arguments a
CallBegins(t, o, a) ==
    /\ NextToStart(t)
    /\ t \in Callers
    /\ op' = [op EXCEPT ![t] = o]
    /\ client' = [client EXCEPT ![t] = SpecClient]
    /\ args' = [args EXCEPT ![t] = a]
    /\ done_before' = [done_before EXCEPT ![t] = {u \in Tasks : pc[u] = "done"}]
    /\ start_time' = [start_time EXCEPT ![t] = now]

\* the cache is consulted however the call was made
LooksUpAlways(bypass) == enable_cache

\* if self._cache and not bypass_cache, line 316
LooksUp(bypass) == enable_cache /\ ~bypass

\* get(interface, method, version, params, bypass_cache), lines 309-323, up to
\* the return of a cached value or the first suspension inside _request; o is
\* the call that runs it, a the arguments recorded for the call
GetBegins(t, o, a, e, p, bypass) ==
    /\ CallBegins(t, o, a)
    /\ refs' = [refs EXCEPT ![t] = [cache_params |-> CacheParamsRef(p),
                                    params |-> RequestParamsRef(p)]]
    /\ LET cache_params == Objects(p)[CacheParamsRef(p)]
           looked == LooksUp(bypass)
           g == TTLCache_get(cache_key(e), cache_params)
       IN  /\ lookup' = [lookup EXCEPT ![t] =
                  [result |-> IF ~looked THEN "skipped"
                              ELSE IF g.hit THEN "hit" ELSE "miss",
                   key |-> _make_key(cache_key(e), cache_params)]]
           /\ _cache' = IF looked THEN g.cache ELSE _cache
           /\ _hits' = IF looked THEN g.hits ELSE _hits
           /\ _misses' = IF looked THEN g.misses ELSE _misses
           /\ IF looked /\ g.hit
              THEN /\ heap' = [heap EXCEPT ![t] = Objects(p)]
                   /\ result' = [result EXCEPT ![t] = Finish(o, Return(g.value))]
                   /\ pc' = [pc EXCEPT ![t] = "done"]
                   /\ UNCHANGED <<attempt, last_exception, wake_at, limiterVars,
                                  grants, acquired, http_calls>>
              ELSE RequestStart(t, p, o)
    /\ UNCHANGED <<clockVars, enable_cache, outcomes, sleeps, stored, cache_call,
                   cache_history,
                   cacheLockVars, call_count>>

\* a caller calls get(interface, method, version, params, bypass_cache)
StartGet(t, e, p, bypass) ==
    GetBegins(t, "get", [endpoint |-> e, params |-> p, bypass |-> bypass],
              e, p, bypass)

\* post(interface, method, version, params, data), lines 353-354
StartPost(t, e, p) ==
    /\ CallBegins(t, "post", [endpoint |-> e, params |-> p, bypass |-> FALSE])
    /\ refs' = [refs EXCEPT ![t] = [cache_params |-> "N",
                                    params |-> RequestParamsRef(p)]]
    /\ RequestStart(t, p, "post")
    /\ UNCHANGED <<clockVars, cacheVars, outcomes, sleeps, lookup, stored,
                   cache_call, cache_history,
                   cacheLockVars, call_count>>

\* the calls that run get: get itself and the convenience methods built on it
\* (lines 449 and 483)
ThroughGet(o) == o \in {"get", "resolve_vanity_url", "get_player_summaries"}

\* whatever the call, what _request returns is stored
StoresAnyResult(o) == TRUE

\* lines 326-328 are get's; post returns what _request returned, line 354
StoresResult(o) == ThroughGet(o)

\* the result is stored however _request ended, as from a finally block
SetInFinally(d) == d.next # "retry"

\* line 326 is reached only when the await of _request at line 323 returned:
\* an exception raised by _request leaves get before the set
ReachesSet(d) == d.next = "return"

\* the transport answers the attempt in flight with o: lines 205-253, then on
\* success lines 326-330 of get
HttpResponse(t, o) ==
    /\ pc[t] = "await_http"
    /\ ThroughGet(op[t]) \/ op[t] = "post"
    /\ LET d == HandleAttempt(attempt[t], last_exception[t], o)
           e == args[t].endpoint
           caches == StoresResult(op[t]) /\ enable_cache /\ ReachesSet(d)
           ttl == _get_cache_ttl(e[2], "")
           cache_params == heap[t][refs[t].cache_params]
       IN  /\ outcomes' = [outcomes EXCEPT ![t] = Append(@, o)]
           /\ last_exception' = [last_exception EXCEPT ![t] = d.last_exception]
           /\ sleeps' = [sleeps EXCEPT ![t] =
                  IF d.next = "retry" THEN Append(@, d.sleep) ELSE @]
           /\ _cache' = IF caches
                        THEN TTLCache_set(cache_key(e), cache_params, d.result.value, ttl)
                        ELSE _cache
           /\ stored' = [stored EXCEPT ![t] =
                  IF caches
                  THEN [set |-> TRUE, key |-> _make_key(cache_key(e), cache_params),
                        ttl |-> ttl, at |-> now, value |-> d.result.value]
                  ELSE @]
           /\ IF d.next = "retry" /\ d.sleep > 0
              THEN /\ pc' = [pc EXCEPT ![t] = "backoff"]
                   /\ wake_at' = [wake_at EXCEPT ![t] = now + d.sleep]
                   /\ UNCHANGED <<attempt, result, limiterVars, grants, acquired,
                                  http_calls>>
              ELSE IF d.next = "retry"
              THEN /\ attempt' = [attempt EXCEPT ![t] =
                          IF @ + 1 < max_retries THEN @ + 1 ELSE @]
                   /\ LoopHead(t, attempt[t] + 1, d.last_exception, op[t])
              ELSE /\ pc' = [pc EXCEPT ![t] = "done"]
                   /\ result' = [result EXCEPT ![t] = Finish(op[t], d.result)]
                   /\ UNCHANGED <<attempt, wake_at, limiterVars, grants, acquired,
                                  http_calls>>
    /\ UNCHANGED <<clockVars, op, client, enable_cache, _hits, _misses, args, heap,
                   refs, lookup, done_before, start_time, cache_call, cache_history,
                   cacheLockVars, call_count>>

\* a backoff sleep is over: "continue", the next turn of the loop
BackoffWake(t) ==
    /\ pc[t] = "backoff"
    /\ now >= wake_at[t]
    /\ attempt' = [attempt EXCEPT ![t] = IF @ + 1 < max_retries THEN @ + 1 ELSE @]
    /\ LoopHead(t, attempt[t] + 1, last_exception[t], op[t])
    /\ UNCHANGED <<clockVars, op, client, cacheVars, args, heap, refs,
                   last_exception, historyVars,
                   cacheLockVars, call_count>>

---------------------------------------------------------------------------
(* One client and the calls made through it *)

\* no task has called anything yet
IdleInit ==
    /\ idle_ticks = 0
    /\ last_request_time = [l \in Limiters |-> 0]
    /\ lock_owner = [l \in Limiters |-> NoTask]
    /\ lock_waiters = [l \in Limiters |-> <<>>]
    /\ pc = [t \in Tasks |-> "idle"]
    /\ op = [t \in Tasks |-> "none"]
    /\ client = [t \in Tasks |-> SpecClient]
    /\ wake_at = [t \in Tasks |-> 0]
    /\ _hits = 0
    /\ _misses = 0
    /\ args = [t \in Tasks |-> NoArgs]
    /\ heap = [t \in Tasks |-> Objects(None)]
    /\ refs = [t \in Tasks |-> [cache_params |-> "N", params |-> "R"]]
    /\ attempt = [t \in Tasks |-> 0]
    /\ last_exception = [t \in Tasks |-> NoneExc]
    /\ result = [t \in Tasks |-> NoResult]
    /\ grants = <<>>
    /\ acquired = [t \in Tasks |-> 0]
    /\ http_calls = [t \in Tasks |-> 0]
    /\ outcomes = [t \in Tasks |-> <<>>]
    /\ sleeps = [t \in Tasks |-> <<>>]
    /\ lookup = [t \in Tasks |-> NoLookup]
    /\ stored = [t \in Tasks |-> NotStored]
    /\ done_before = [t \in Tasks |-> {}]
    /\ start_time = [t \in Tasks |-> 0]
    /\ cache_call = NoCacheCall
    /\ cache_history = NoCacheHistory
    /\ _lock = Unlocked
    /\ cache_access = NoAccess
    /\ call_count = 0

\* a cache just constructed, and no task has called anything yet
TaskInit ==
    /\ _cache = <<>>
    /\ IdleInit

\* the answers of the transport in the model of consecutive calls
CacheOutcomes ==
    {Response(200, FALSE, Json("dict", FALSE, v)) : v \in Values}
    \cup {Response(401, FALSE, NoValue)}

\* the method called in the model of consecutive calls
CacheEndpoints == {<<"ISteamUserStats", "GetNumberOfCurrentPlayers", 1>>}

\* no call is in progress
Quiet == \A t \in Tasks : pc[t] \in {"idle", "done"}

Init ==
    /\ now = min_interval
    /\ enable_cache \in BOOLEAN
    /\ TaskInit

\* calls made one after the other through one client
Next ==
    \/ \E t \in Tasks : \E e \in CacheEndpoints : \E p \in ParamChoices :
           \E bypass \in BOOLEAN : Quiet /\ StartGet(t, e, p, bypass)
    \/ \E t \in Tasks : \E e \in CacheEndpoints : \E p \in ParamChoices :
           Quiet /\ StartPost(t, e, p)
    \/ \E t \in Tasks : \E o \in CacheOutcomes : HttpResponse(t, o)
    \/ \E t \in Tasks : LimiterWake(t)
    \/ TickWaiting
    \/ TickIdle
    \/ TickExpire

Spec == Init /\ [][Next]_vars

---------------------------------------------------------------------------
(* One call, whatever the transport answers *)

FirstCall(t) == \A u \in Tasks : pc[u] = "idle"

RequestNext ==
    \/ \E t \in Tasks : \E e \in Endpoints : \E p \in ParamChoices :
           \E bypass \in BOOLEAN : FirstCall(t) /\ StartGet(t, e, p, bypass)
    \/ \E t \in Tasks : \E e \in Endpoints : \E p \in ParamChoices :
           FirstCall(t) /\ StartPost(t, e, p)
    \/ \E t \in Tasks : \E o \in Outcomes : HttpResponse(t, o)
    \/ \E t \in Tasks : BackoffWake(t)
    \/ \E t \in Tasks : LimiterWake(t)
    \/ TickWaiting
    \/ TickIdle

RequestInit ==
    /\ now \in {0, min_interval}
    /\ enable_cache \in BOOLEAN
    /\ TaskInit

RequestSpec == RequestInit /\ [][RequestNext]_vars


---------------------------------------------------------------------------
(* One call against a transport that fails transiently or succeeds *)

RetryOutcomes ==
    {Response(503, FALSE, NoValue), Response(429, FALSE, NoValue), Timeout,
     Response(200, FALSE, Json("dict", FALSE, "a"))}

RetryNext ==
    \/ \E t \in Tasks : \E e \in CacheEndpoints : \E p \in ParamChoices :
           \E bypass \in BOOLEAN : FirstCall(t) /\ StartGet(t, e, p, bypass)
    \/ \E t \in Tasks : \E e \in CacheEndpoints : \E p \in ParamChoices :
           FirstCall(t) /\ StartPost(t, e, p)
    \/ \E t \in Tasks : \E o \in RetryOutcomes : HttpResponse(t, o)
    \/ \E t \in Tasks : BackoffWake(t)
    \/ \E t \in Tasks : LimiterWake(t)
    \/ TickWaiting
    \/ TickIdle

\* the event loop runs every ready task, time does not stop, and the transport
\* answers every request: with a response, or with the timeout of the client
RequestFairness ==
    /\ \A t \in Tasks : WF_vars(\E o \in RetryOutcomes : HttpResponse(t, o))
    /\ \A t \in Tasks : WF_vars(BackoffWake(t))
    /\ \A t \in Tasks : WF_vars(LimiterWake(t))
    /\ WF_vars(TickWaiting)

FairRequestSpec == RequestInit /\ [][RetryNext]_vars /\ RequestFairness
---------------------------------------------------------------------------
(* SteamClient.get_store_api and SteamClient.get_raw *)

\* params.pop("key", None), line 380
DictPop(d, k) == SelectSeq(d, LAMBDA item : item[1] # k)

\* the cache is keyed by the endpoint name alone, as get keys it by its method
StoreKeyBare(endpoint) == <<endpoint>>

\* cache_key = f"store.{endpoint}", line 383
store_cache_key(endpoint) == <<"store", endpoint>>

\* the objects of a get_store_api call once lines 379-380 have run: the
\* caller's dict without its "key" item, or a new empty dict
ObjectsInStore(p) ==
    LET h == Objects(p) IN
    IF Truthy(p)
    THEN [h EXCEPT !.P = Dict(DictPop(p.items, "key"))]
    ELSE [h EXCEPT !.R = Dict(<<>>)]

\* get_raw sends the API key along
RawParamsWithKey(d) == DictSet(d, "key", API_KEY)

\* params = params or {}, line 425, is passed to the transport as it is
RawParams(d) == d

\* the objects of a get_raw call once line 425 has run
ObjectsInRaw(p) ==
    LET h == Objects(p) IN
    IF Truthy(p)
    THEN [h EXCEPT !.P = Dict(RawParams(p.items))]
    ELSE [h EXCEPT !.R = Dict(RawParams(<<>>))]

\* a failure that is no SteamAPIError: response.json() on a body that is not JSON
JSONDecodeError ==
    [kind |-> "raise_other", value |-> NoValue, status |-> NoStatus,
     cause |-> "json_decode", last |-> NoneExc]

\* an answer that raise_for_status() lets pass
IsOk(o) == o.kind = "response" /\ o.status >= 200 /\ o.status < 300

\* lines 393-404 and 430-434: the one attempt of get_store_api or get_raw,
\* answered with o; message is the prefix of the error raised
HandleDirect(o, message) ==
    IF ~IsOk(o) THEN SteamAPIError(message, NoStatus, NoneExc)
    ELSE IF IsHtml(o) THEN JSONDecodeError
    ELSE Return(o.body)

\* if self._cache and not bypass_cache, line 384
StoreLooksUp(bypass) == enable_cache /\ ~bypass

\* get_store_api(endpoint, params, bypass_cache), lines 377-390, up to the
\* return of a cached value or the suspension inside acquire()
StartGetStoreApi(t, e, p, bypass) ==
    /\ CallBegins(t, "get_store_api", [endpoint |-> e, params |-> p, bypass |-> bypass])
    /\ refs' = [refs EXCEPT ![t] = [cache_params |-> RequestParamsRef(p),
                                    params |-> RequestParamsRef(p)]]
    /\ heap' = [heap EXCEPT ![t] = ObjectsInStore(p)]
    /\ LET params == ObjectsInStore(p)[RequestParamsRef(p)]
           looked == StoreLooksUp(bypass)
           g == TTLCache_get(store_cache_key(e), params)
       IN  /\ lookup' = [lookup EXCEPT ![t] =
                  [result |-> IF ~looked THEN "skipped"
                              ELSE IF g.hit THEN "hit" ELSE "miss",
                   key |-> _make_key(store_cache_key(e), params)]]
           /\ _cache' = IF looked THEN g.cache ELSE _cache
           /\ _hits' = IF looked THEN g.hits ELSE _hits
           /\ _misses' = IF looked THEN g.misses ELSE _misses
           /\ IF looked /\ g.hit
              THEN /\ result' = [result EXCEPT ![t] = Return(g.value)]
                   /\ pc' = [pc EXCEPT ![t] = "done"]
                   /\ UNCHANGED <<wake_at, limiterVars, grants, acquired, http_calls>>
              ELSE /\ AcquireEnter(t, rate_limiter(SpecClient), "get_store_api")
                   /\ UNCHANGED result
    /\ UNCHANGED <<clockVars, enable_cache, attempt, last_exception, outcomes,
                   sleeps, stored, cache_call, cache_history, cacheLockVars, call_count>>

\* get_raw(url, params), lines 425-427
StartGetRaw(t, url, p) ==
    /\ CallBegins(t, "get_raw", [endpoint |-> url, params |-> p, bypass |-> FALSE])
    /\ refs' = [refs EXCEPT ![t] = [cache_params |-> "N",
                                    params |-> RequestParamsRef(p)]]
    /\ heap' = [heap EXCEPT ![t] = ObjectsInRaw(p)]
    /\ AcquireEnter(t, rate_limiter(SpecClient), "get_raw")
    /\ UNCHANGED <<clockVars, cacheVars, attempt, last_exception, result, outcomes,
                   sleeps, lookup, stored, cache_call, cache_history, cacheLockVars, call_count>>

\* the transport answers a get_store_api or get_raw call with o: lines 393-404
\* and 430-434
DirectResponse(t, o) ==
    /\ pc[t] = "await_http"
    /\ op[t] \in {"get_store_api", "get_raw"}
    /\ LET e == args[t].endpoint
           r == HandleDirect(o, IF op[t] = "get_raw" THEN "request_error"
                                ELSE "store_api_error")
           caches == op[t] = "get_store_api" /\ enable_cache /\ r.kind = "return"
           ttl == _get_cache_ttl("", e)
           params == heap[t][refs[t].cache_params]
       IN  /\ outcomes' = [outcomes EXCEPT ![t] = Append(@, o)]
           /\ _cache' = IF caches
                        THEN TTLCache_set(store_cache_key(e), params, r.value, ttl)
                        ELSE _cache
           /\ stored' = [stored EXCEPT ![t] =
                  IF caches
                  THEN [set |-> TRUE, key |-> _make_key(store_cache_key(e), params),
                        ttl |-> ttl, at |-> now, value |-> r.value]
                  ELSE @]
           /\ result' = [result EXCEPT ![t] = r]
           /\ pc' = [pc EXCEPT ![t] = "done"]
    /\ UNCHANGED <<clockVars, limiterVars, op, client, wake_at, enable_cache, _hits,
                   _misses, args, heap, refs, attempt, last_exception, grants,
                   acquired, http_calls, sleeps, lookup, done_before, start_time,
                   cache_call, cache_history, cacheLockVars, call_count>>

---------------------------------------------------------------------------
(* Calls of get_store_api and get_raw made one after the other *)

StoreEndpoints == {"appdetails"}
RawUrls == {"https://store.steampowered.com/appreviews/1"}

\* None, a dict, and the same dict with an API key in it
StoreParamChoices ==
    {None, Dict(<< <<"appid", "1">> >>),
     Dict(<< <<"appid", "1">>, <<"key", API_KEY>> >>)}

\* success, a status that raise_for_status() rejects and that _request would
\* retry, no answer in time
StoreOutcomes ==
    {Response(200, FALSE, Json("dict", FALSE, "a")), Response(503, FALSE, NoValue),
     Timeout}

\* the params passed to get_raw
RawParamChoices == {None, Dict(<< <<"appid", "1">> >>)}

StoreNext ==
    \/ \E t \in Tasks : \E e \in StoreEndpoints : \E p \in StoreParamChoices :
           \E bypass \in BOOLEAN : Quiet /\ StartGetStoreApi(t, e, p, bypass)
    \/ \E t \in Tasks : \E url \in RawUrls : \E p \in RawParamChoices :
           Quiet /\ StartGetRaw(t, url, p)
    \/ \E t \in Tasks : \E o \in StoreOutcomes : DirectResponse(t, o)
    \/ \E t \in Tasks : LimiterWake(t)
    \/ TickWaiting
    \/ TickExpire

\* a client with its cache enabled
StoreInit ==
    /\ now = min_interval
    /\ enable_cache = TRUE
    /\ TaskInit

StoreSpec == StoreInit /\ [][StoreNext]_vars
---------------------------------------------------------------------------
(* The convenience methods: resolve_vanity_url and get_player_summaries *)

VanityEndpoint == <<"ISteamUser", "ResolveVanityURL", 1>>
SummariesEndpoint == <<"ISteamUser", "GetPlayerSummaries", 2>>

\* the cap on the identifiers of one call, line 480
MaxSteamIds == 100

\* a list of n identifiers
SteamIds(n) == [i \in 1..n |-> i]

\* ",".join(steam_ids): the text that lists the identifiers in order
Join(steam_ids) == ToString(steam_ids)

\* the cap is one identifier higher
OverCapByTwo(steam_ids) == Len(steam_ids) > MaxSteamIds + 1

\* if len(steam_ids) > 100, line 480
TooManyIds(steam_ids) == Len(steam_ids) > MaxSteamIds

\* resolve_vanity_url(vanity_name), lines 448-455
StartResolveVanityUrl(t, vanity_name) ==
    LET params == Dict(<< <<"vanityurl", vanity_name>> >>) IN
    GetBegins(t, "resolve_vanity_url",
              [endpoint |-> VanityEndpoint, params |-> params, bypass |-> FALSE,
               input |-> vanity_name],
              VanityEndpoint, params, FALSE)

\* get_player_summaries(steam_ids), lines 480-488
StartGetPlayerSummaries(t, steam_ids) ==
    IF TooManyIds(steam_ids)
    THEN /\ CallBegins(t, "get_player_summaries",
                       [endpoint |-> SummariesEndpoint, params |-> None,
                        bypass |-> FALSE, input |-> steam_ids])
         /\ result' = [result EXCEPT ![t] = ValueError]
         /\ pc' = [pc EXCEPT ![t] = "done"]
         /\ UNCHANGED <<clockVars, limiterVars, wake_at, cacheVars, heap, refs,
                        attempt, last_exception, grants, acquired, http_calls,
                        outcomes, sleeps, lookup, stored, cache_call,
                        cache_history, cacheLockVars, call_count>>
    ELSE LET params == Dict(<< <<"steamids", Join(steam_ids)>> >>) IN
         GetBegins(t, "get_player_summaries",
                   [endpoint |-> SummariesEndpoint, params |-> params,
                    bypass |-> FALSE, input |-> steam_ids],
                   SummariesEndpoint, params, FALSE)

---------------------------------------------------------------------------
(* One call of a convenience method, whatever the transport answers *)

VanityNames == {"gabelogannewell"}

\* no identifier, one, as many as allowed, one too many
IdCounts == {0, 1, MaxSteamIds, MaxSteamIds + 1}

SteamId == "76561197960287930"

\* the JSON objects the transport answers with: a resolved name, an unknown
\* one, a steamid that comes without success, a list of players, an object
\* with no response in it
Resolved == [response |-> [success |-> 1, steamid |-> SteamId]]
NoMatch == [response |-> [success |-> 42, message |-> "No match"]]
Unmarked == [response |-> [steamid |-> SteamId]]
Players == [response |-> [players |-> <<[steamid |-> SteamId]>>]]
ConvenienceBodies ==
    {Json("dict", FALSE, b) : b \in {Resolved, NoMatch, Unmarked, Players, EmptyObject}}
    \cup {Json("list", FALSE, <<>>)}

\* an answer with one of these bodies, or a failure: a rejected key, an HTML
\* page, a server error, too many requests, no answer in time, no connection
ConvenienceOutcomes ==
    {Response(200, FALSE, b) : b \in ConvenienceBodies}
    \cup {Response(401, FALSE, NoValue), Response(200, TRUE, NoValue),
          Response(503, FALSE, NoValue), Response(429, FALSE, NoValue),
          Timeout, TransportError}

\* a cache in which an earlier resolve_vanity_url left the response b
VanityCached(b) ==
    LET key == _make_key(cache_key(VanityEndpoint),
                         Dict(<< <<"vanityurl", "gabelogannewell">> >>))
    IN  [k \in {key} |-> CacheEntry(Json("dict", FALSE, b), now + DEFAULT)]

ConvenienceInit ==
    /\ now = min_interval
    /\ enable_cache \in BOOLEAN
    /\ _cache \in {<<>>, VanityCached(Resolved), VanityCached(NoMatch)}
    /\ ~enable_cache => _cache = <<>>
    /\ IdleInit

ConvenienceNext ==
    \/ \E t \in Tasks : \E name \in VanityNames :
           FirstCall(t) /\ StartResolveVanityUrl(t, name)
    \/ \E t \in Tasks : \E n \in IdCounts :
           FirstCall(t) /\ StartGetPlayerSummaries(t, SteamIds(n))
    \/ \E t \in Tasks : \E o \in ConvenienceOutcomes : HttpResponse(t, o)
    \/ \E t \in Tasks : BackoffWake(t)
    \/ \E t \in Tasks : LimiterWake(t)
    \/ TickWaiting
    \/ TickIdle

ConvenienceSpec == ConvenienceInit /\ [][ConvenienceNext]_vars
---------------------------------------------------------------------------
(* One call of get or get_store_api for each name of the TTL policy table, *)
(* and for names that are not in it                                        *)

\* the names of DEFAULT_CACHE_TTLS, and two that it does not list
PolicyNames ==
    {"appdetails", "GetSchemaForGame", "GetGlobalAchievementPercentagesForApp",
     "GetPlayerSummaries", "GetOwnedGames", "GetRecentlyPlayedGames",
     "GetNumberOfCurrentPlayers", "GetNewsForApp",
     "ResolveVanityURL", "featured"}

\* get takes the ttl from the method alone (line 327), whatever the interface
PolicyInterface == "ISteamUser"

PolicyOutcomes ==
    {Response(200, FALSE, Json("dict", FALSE, "a")), Response(404, FALSE, NoValue)}

PolicyNext ==
    \/ \E t \in Tasks : \E m \in PolicyNames : \E p \in ParamChoices :
           FirstCall(t) /\ StartGet(t, <<PolicyInterface, m, 1>>, p, FALSE)
    \/ \E t \in Tasks : \E e \in PolicyNames : \E p \in ParamChoices :
           FirstCall(t) /\ StartGetStoreApi(t, e, p, FALSE)
    \/ \E t \in Tasks : \E o \in PolicyOutcomes : HttpResponse(t, o)
    \/ \E t \in Tasks : \E o \in PolicyOutcomes : DirectResponse(t, o)
    \/ \E t \in Tasks : LimiterWake(t)
    \/ TickWaiting
    \/ TickIdle

PolicySpec == RequestInit /\ [][PolicyNext]_vars
---------------------------------------------------------------------------
(* The rate limiter on its own: tasks that call acquire() *)

LimiterInit ==
    /\ now \in {0, min_interval}
    /\ enable_cache = TRUE
    /\ TaskInit

LimiterTaskStep(t) ==
    \/ \E c \in Clients : StartAcquire(t, c)
    \/ LockGranted(t)
    \/ LimiterWake(t)

LimiterNext ==
    \/ \E t \in Tasks : LimiterTaskStep(t)
    \/ TickWaiting
    \/ TickIdle

LimiterSpec == LimiterInit /\ [][LimiterNext]_vars

\* the event loop runs every ready task, and time does not stop
LimiterFairness ==
    /\ \A t \in Tasks : WF_vars(LockGranted(t))
    /\ \A t \in Tasks : WF_vars(LimiterWake(t))
    /\ WF_vars(TickWaiting)

\* all the callers use one limiter, that of the first client
OneLimiterNext ==
    \/ \E t \in Tasks : StartAcquire(t, 1)
    \/ \E t \in Tasks : LockGranted(t)
    \/ \E t \in Tasks : LimiterWake(t)
    \/ TickWaiting
    \/ TickIdle

FairLimiterSpec == LimiterInit /\ [][OneLimiterNext]_vars /\ LimiterFairness

---------------------------------------------------------------------------
(* Consecutive calls through one client whose cache may already hold the   *)
(* response of an earlier get, the caller passing fresh params or the dict *)
(* object it passed to an earlier call                                     *)

\* the params of a fresh call: None or a dict of one item
RepeatParams == {None, Dict(<< <<"appid", "1">> >>)}

\* answers that end the call at once: two successes and a terminal status
RepeatOutcomes ==
    {Response(200, FALSE, Json("dict", FALSE, v)) : v \in Values}
    \cup {Response(401, FALSE, NoValue)}

\* a cache in which a get(..., params={"appid": "1"}, bypass_cache=True) made
\* at time 0 left the response "a"
Fetched ==
    LET e == CHOOSE x \in CacheEndpoints : TRUE
        key == _make_key(cache_key(e), Dict(<< <<"appid", "1">> >>))
    IN  [k \in {key} |->
            CacheEntry(Json("dict", FALSE, "a"), _get_cache_ttl(e[2], ""))]

\* the caller passes to get the dict object it passed to call u, as that
\* object is now
StartGetReusing(t, u, bypass) ==
    /\ pc[u] = "done"
    /\ op[u] \in {"get", "post"}
    /\ ~heap[u].P.none
    /\ StartGet(t, args[u].endpoint, heap[u].P, bypass)

RepeatInit ==
    /\ now = min_interval
    /\ enable_cache = TRUE
    /\ _cache \in {<<>>, Fetched}
    /\ IdleInit

RepeatNext ==
    \/ \E t \in Tasks : \E e \in CacheEndpoints : \E p \in RepeatParams :
           \E bypass \in BOOLEAN : Quiet /\ StartGet(t, e, p, bypass)
    \/ \E t \in Tasks : \E e \in CacheEndpoints : \E p \in RepeatParams :
           Quiet /\ StartPost(t, e, p)
    \/ \E t, u \in Tasks : Quiet /\ StartGetReusing(t, u, FALSE)
    \/ \E t \in Tasks : \E o \in RepeatOutcomes : HttpResponse(t, o)
    \/ \E t \in Tasks : LimiterWake(t)
    \/ TickWaiting
    \/ TickExpire

RepeatSpec == RepeatInit /\ [][RepeatNext]_vars

---------------------------------------------------------------------------
(* One call, whatever the transport answers, through a client whose cache  *)
(* may already hold the response of an earlier get                         *)

RefetchInit ==
    /\ now = min_interval
    /\ enable_cache = TRUE
    /\ _cache \in {<<>>, Fetched}
    /\ IdleInit

RefetchSpec == RefetchInit /\ [][RequestNext]_vars

---------------------------------------------------------------------------
(* A TTLCache and the calls made on it *)

\* the calls made on the cache, and how far the clock runs
MaxCacheCalls == 3
MaxClock == 1

CacheEndpointNames == {"e"}

\* the params passed: none, two items in either order, and the same two keys
\* with another value
CacheParams ==
    {None,
     Dict(<< <<"appid", "1">>, <<"format", "json">> >>),
     Dict(<< <<"format", "json">>, <<"appid", "1">> >>),
     Dict(<< <<"appid", "2">>, <<"format", "json">> >>)}

CacheValues == {Json("dict", FALSE, v) : v \in Values}

\* no ttl, one that has passed, none at all, one second
TtlChoices == {NoTtl, Ttl(-1), Ttl(0), Ttl(1)}

MoreCalls == cache_history.calls < MaxCacheCalls

\* the clock moves between two calls
CacheTick ==
    /\ now < MaxClock
    /\ now' = now + 1
    /\ UNCHANGED <<idle_ticks, limiterVars, taskVars, cacheVars, callVars,
                   grants, acquired, http_calls, historyVars,
                   cacheLockVars, call_count>>

CacheInit ==
    /\ now = 0
    /\ enable_cache = TRUE
    /\ TaskInit

CacheNext ==
    \/ \E e \in CacheEndpointNames : \E p \in CacheParams :
           MoreCalls /\ CacheGet(e, p)
    \/ \E e \in CacheEndpointNames : \E p \in CacheParams :
           \E v \in CacheValues : \E ttl \in TtlChoices :
               MoreCalls /\ CacheSet(e, p, v, ttl)
    \/ \E e \in CacheEndpointNames : \E p \in CacheParams :
           MoreCalls /\ CacheInvalidate(e, p)
    \/ MoreCalls /\ CacheClear
    \/ MoreCalls /\ ClearCache
    \/ CacheTick

CacheSpec == CacheInit /\ [][CacheNext]_vars
---------------------------------------------------------------------------
(* Concurrent tasks, each making one call on the same TTLCache *)

LockedParams == {None, Dict(<< <<"appid", "1">> >>)}

\* every set is made with the default ttl
LockedTtls == {NoTtl}

LockedValue == Json("dict", FALSE, "a")

\* the params under which entries were stored before the tasks start
StoredParams ==
    <<None, Dict(<< <<"appid", "1">> >>), Dict(<< <<"appid", "2">> >>),
      Dict(<< <<"appid", "3">> >>)>>

\* a cache at capacity: max_size entries, every other one expired
FullCache ==
    LET key(i) == _make_key("e", StoredParams[i])
        n == IF max_size < Len(StoredParams) THEN max_size ELSE Len(StoredParams)
    IN  [k \in {key(i) : i \in 1..n} |->
            LET i == CHOOSE j \in 1..n : key(j) = k IN
            CacheEntry(LockedValue, IF i % 2 = 1 THEN now - 1 ELSE now + default_ttl)]

\* the tasks start on a cache that is empty or at capacity
LockedInit ==
    /\ now = 0
    /\ enable_cache = TRUE
    /\ _cache \in {<<>>, FullCache}
    /\ IdleInit

LockedNext ==
    \/ \E t \in Tasks : \E o \in {"get", "invalidate"} : \E p \in LockedParams :
           CacheCall(t, o, CacheArgs("e", p, NoValue, NoTtl))
    \/ \E t \in Tasks : \E p \in LockedParams : \E ttl \in LockedTtls :
           CacheCall(t, "set", CacheArgs("e", p, LockedValue, ttl))
    \/ \E t \in Tasks : CacheCall(t, "clear", CacheArgs("e", None, NoValue, NoTtl))
    \/ \E t \in Tasks : CacheLockGranted(t)
    \/ \E t \in Tasks : CacheBody(t)
    \/ \E t \in Tasks : CacheSetFull(t)
    \/ \E t \in Tasks : CacheSweep(t)
    \/ \E t \in Tasks : CacheStats(t)

LockedCacheSpec == LockedInit /\ [][LockedNext]_vars

\* the event loop runs every task that is ready
LockedFairness ==
    /\ \A t \in Tasks : WF_vars(CacheLockGranted(t))
    /\ \A t \in Tasks : WF_vars(CacheBody(t))
    /\ \A t \in Tasks : WF_vars(CacheSetFull(t))
    /\ \A t \in Tasks : WF_vars(CacheSweep(t))

FairLockedCacheSpec == LockedInit /\ [][LockedNext]_vars /\ LockedFairness
---------------------------------------------------------------------------
(* cache.py: the cached decorator, on methods of a service object whose    *)
(* _cache attribute is a TTLCache or is missing                            *)

\* the decorated methods of the model, as in TestCachedDecorator:
\* @cached(category=CacheCategory.APP_DETAILS) and @cached(ttl=1)
Decorations ==
    [get_data |-> [ttl |-> NoTtl, category |-> Ttl(APP_DETAILS)],
     get_quick |-> [ttl |-> Ttl(1), category |-> NoTtl]]

\* the ttl of the decorator, else the category's, else the default: lines
\* 242-246
effective_ttl(ttl, category) ==
    IF ~ttl.none THEN ttl.v
    ELSE IF ~category.none THEN category.v
    ELSE DEFAULT

\* the key names the function alone
EndpointOfFunction(name, a) == <<name, "">>

\* lines 237-239: f"{func.__module__}.{func.__qualname__}" followed by the
\* JSON text of the positional and keyword arguments
decorated_endpoint(name, a) == <<name, a>>

\* cache = getattr(self, "_cache", None); cache is None or bypass_cache, lines
\* 229-230: the wrapped function is called with no lookup and no store
Undecorated(bypass) == ~enable_cache \/ bypass

\* the wrapper from line 226 to the return of a cached value, or into the
\* body of the wrapped function; a is the argument of the call
CachedCall(t, name, a, bypass) ==
    LET endpoint == decorated_endpoint(name, a)
        g == TTLCache_get(endpoint, None)
        looked == ~Undecorated(bypass)
    IN
    /\ CallBegins(t, "cached", [endpoint |-> <<name, a>>, params |-> None,
                               bypass |-> bypass])
    /\ lookup' = [lookup EXCEPT ![t] =
           [result |-> IF ~looked THEN "skipped"
                       ELSE IF g.hit THEN "hit" ELSE "miss",
            key |-> _make_key(endpoint, None)]]
    /\ _cache' = IF looked THEN g.cache ELSE _cache
    /\ _hits' = IF looked THEN g.hits ELSE _hits
    /\ _misses' = IF looked THEN g.misses ELSE _misses
    /\ IF looked /\ g.hit
       THEN /\ result' = [result EXCEPT ![t] = Return(g.value)]
            /\ pc' = [pc EXCEPT ![t] = "done"]
            /\ UNCHANGED call_count
       ELSE /\ pc' = [pc EXCEPT ![t] = "in_func"]
            /\ call_count' = call_count + 1
            /\ UNCHANGED result
    /\ UNCHANGED <<clockVars, limiterVars, wake_at, enable_cache, heap, refs,
                   attempt, last_exception, grants, acquired, http_calls,
                   outcomes, sleeps, stored, cache_call, cache_history,
                   cacheLockVars>>

\* the wrapped function returns v: line 231, or lines 254-256
FuncReturns(t, v) ==
    LET name == args[t].endpoint[1]
        endpoint == decorated_endpoint(name, args[t].endpoint[2])
        d == Decorations[name]
        ttl == effective_ttl(d.ttl, d.category)
        stores == ~Undecorated(args[t].bypass)
    IN
    /\ pc[t] = "in_func"
    /\ _cache' = IF stores THEN TTLCache_set(endpoint, None, v, ttl) ELSE _cache
    /\ stored' = [stored EXCEPT ![t] =
           IF stores
           THEN [set |-> TRUE, key |-> _make_key(endpoint, None), ttl |-> ttl,
                 at |-> now, value |-> v]
           ELSE @]
    /\ result' = [result EXCEPT ![t] = Return(v)]
    /\ pc' = [pc EXCEPT ![t] = "done"]
    /\ UNCHANGED <<clockVars, limiterVars, op, client, wake_at, enable_cache,
                   _hits, _misses, args, heap, refs, attempt, last_exception,
                   grants, acquired, http_calls, outcomes, sleeps, lookup,
                   done_before, start_time, cache_call, cache_history,
                   cacheLockVars, call_count>>

\* the arguments the methods are called with
CallArguments == {"123", "456"}

DecoratedInit ==
    /\ now = 0
    /\ enable_cache \in BOOLEAN
    /\ TaskInit

\* calls made one after the other on the service object
DecoratedNext ==
    \/ \E t \in Tasks : \E name \in DOMAIN Decorations : \E a \in CallArguments :
           \E bypass \in BOOLEAN : Quiet /\ CachedCall(t, name, a, bypass)
    \/ \E t \in Tasks : \E v \in CacheValues : FuncReturns(t, v)
    \/ TickIdle
    \/ TickExpire

DecoratedSpec == DecoratedInit /\ [][DecoratedNext]_vars
---------------------------------------------------------------------------
(* One call of any of the four methods that reach the transport            *)

\* every call passes the same params
SharedParams == Dict(<< <<"appid", "1">> >>)

TransportNext ==
    \/ \E t \in Tasks : \E e \in CacheEndpoints : \E bypass \in BOOLEAN :
           FirstCall(t) /\ StartGet(t, e, SharedParams, bypass)
    \/ \E t \in Tasks : \E e \in CacheEndpoints :
           FirstCall(t) /\ StartPost(t, e, SharedParams)
    \/ \E t \in Tasks : \E e \in StoreEndpoints : \E bypass \in BOOLEAN :
           FirstCall(t) /\ StartGetStoreApi(t, e, SharedParams, bypass)
    \/ \E t \in Tasks : \E url \in RawUrls :
           FirstCall(t) /\ StartGetRaw(t, url, SharedParams)
    \/ \E t \in Tasks : \E o \in Outcomes : HttpResponse(t, o)
    \/ \E t \in Tasks : \E o \in StoreOutcomes : DirectResponse(t, o)
    \/ \E t \in Tasks : BackoffWake(t)
    \/ \E t \in Tasks : LimiterWake(t)
    \/ TickWaiting
    \/ TickIdle

TransportSpec == RequestInit /\ [][TransportNext]_vars

---------------------------------------------------------------------------
(* Tasks that call get through one client at the same time                 *)

\* the transport answers each request with one of two responses
ConcurrentOutcomes == {Response(200, FALSE, Json("dict", FALSE, v)) : v \in Values}

\* a get begins whatever the other tasks are doing
ConcurrentNext ==
    \/ \E t \in Tasks : \E e \in CacheEndpoints : \E p \in RepeatParams :
           \E bypass \in BOOLEAN : StartGet(t, e, p, bypass)
    \/ \E t \in Tasks : LockGranted(t)
    \/ \E t \in Tasks : LimiterWake(t)
    \/ \E t \in Tasks : \E o \in ConcurrentOutcomes : HttpResponse(t, o)
    \/ TickWaiting

\* a client with its cache enabled, just constructed or idle for a while
ConcurrentInit ==
    /\ now \in {0, min_interval}
    /\ enable_cache = TRUE
    /\ TaskInit

ConcurrentSpec == ConcurrentInit /\ [][ConcurrentNext]_vars
---------------------------------------------------------------------------
(* Properties of the rate limiter *)

LimiterGrants(l) == SelectSeq(grants, LAMBDA g : g.limiter = l)

\* C1: on one limiter any two grants are at least min_interval apart, so the
\* j-th grant comes at least (j - i) * min_interval after the i-th, whether
\* the callers were concurrent or sequential.
C1_GrantSpacing ==
    \A l \in Limiters :
        LET g == LimiterGrants(l) IN
        \A i, j \in 1..Len(g) :
            i < j => g[j].time - g[i].time >= (j - i) * min_interval

\* two grants were made on a limiter while a further caller was queued on it
C1_Witness ==
    \E l \in Limiters : \E t \in Tasks :
        /\ Len(LimiterGrants(l)) >= 2
        /\ pc[t] = "wait_lock"
        /\ rate_limiter(client[t]) = l

InCriticalSection(t) == pc[t] = "sleep_limiter"

\* C2: a task that has read last_request_time and not yet written it holds
\* the limiter's lock, even while it sleeps, and no two tasks are in that
\* section of the same limiter at once.
C2_LockHeldAcrossSleep ==
    \A t \in Tasks :
        InCriticalSection(t) =>
            /\ lock_owner[rate_limiter(client[t])] = t
            /\ \A u \in Tasks \ {t} :
                   InCriticalSection(u) =>
                       rate_limiter(client[u]) # rate_limiter(client[t])

\* one caller sleeps inside acquire() while another waits for the same lock
C2_Witness ==
    \E t, u \in Tasks :
        /\ t # u
        /\ pc[t] = "sleep_limiter"
        /\ pc[u] = "wait_lock"
        /\ rate_limiter(client[t]) = rate_limiter(client[u])
        /\ now < wake_at[t]

\* C3: every task that has called acquire() is eventually granted and returns.
C3_EveryCallerGranted ==
    \A t \in Tasks : (pc[t] \in {"wait_lock", "sleep_limiter"}) ~> (pc[t] = "done")

\* every task has called acquire() on the same limiter and none has returned:
\* one sleeps with the lock, the others are queued behind it
C3_Witness ==
    \E t \in Tasks :
        /\ pc[t] = "sleep_limiter"
        /\ \A u \in Tasks \ {t} :
               /\ pc[u] = "wait_lock"
               /\ rate_limiter(client[u]) = rate_limiter(client[t])

\* C4: two clients constructed with default arguments share one limiter, so
\* any two grants, through whichever clients, are at least min_interval apart.
C4_SharedSpacing ==
    /\ \A i, j \in 1..Len(grants) :
           i < j => grants[j].time - grants[i].time >= min_interval
    /\ (Len(grants) >= 2 => \A c, d \in Clients : rate_limiter(c) = rate_limiter(d))


---------------------------------------------------------------------------
(* Properties of SteamClient.get: the cache in front of the transport *)

\* the cache key of a call's arguments as the caller supplied them
KeyOf(a) == _make_key(cache_key(a.endpoint), a.params)

SameArguments(t, u) ==
    args[t].endpoint = args[u].endpoint /\ args[t].params = args[u].params

\* the latest call, ended before call t began, that stored under t's key
LatestStore(t) ==
    LET S == {u \in done_before[t] : stored[u].set /\ stored[u].key = KeyOf(args[t])}
    IN  IF S = {} THEN NoTask ELSE CHOOSE u \in S : \A v \in S : v <= u

\* what call u stored had not expired when call t began
Unexpired(u, t) == start_time[t] <= stored[u].at + stored[u].ttl

\* C5: a get without bypass_cache that finds an unexpired entry for its
\* (interface.method.vVersion, params) returns the cached value at once, with
\* no transport call and no rate-limiter acquire; so a get that repeats a
\* successful get makes no further transport call.
C5_HitSkipsTransport ==
    \A t \in Callers :
        LET u == LatestStore(t) IN
        (/\ op[t] = "get"
         /\ ~args[t].bypass
         /\ u # NoTask
         /\ Unexpired(u, t))
        => /\ lookup[t].result = "hit"
           /\ pc[t] = "done"
           /\ result[t] = Return(stored[u].value)
           /\ http_calls[t] = 0
           /\ acquired[t] = 0

\* a get repeats an earlier successful get at the very instant the entry
\* expires, and is served from the cache
C5_Witness ==
    \E t \in Callers :
        LET u == LatestStore(t) IN
        /\ op[t] = "get"
        /\ u # NoTask
        /\ op[u] = "get"
        /\ SameArguments(u, t)
        /\ start_time[t] = stored[u].at + stored[u].ttl
        /\ lookup[t].result = "hit"

\* C6: of two consecutive gets with identical interface, method, version and
\* params, the first fetched successfully, the second makes a transport call of
\* its own when it passes bypass_cache (two in all) and none when it does not
\* and the first response has not expired (one in all).
C6_BypassRefetches ==
    \A t, u \in Callers :
        (/\ u = t + 1
         /\ op[t] = "get" /\ op[u] = "get"
         /\ SameArguments(t, u)
         /\ lookup[t].result # "hit"
         /\ result[t].kind = "return"
         /\ pc[u] = "done")
        => /\ args[u].bypass => http_calls[t] + http_calls[u] = 2
           /\ (~args[u].bypass /\ enable_cache /\ Unexpired(t, u))
                  => http_calls[t] + http_calls[u] = 1

\* a get with bypass_cache repeats a successful get whose response is cached
\* and unexpired, and fetches a different value
C6_Witness ==
    \E t, u \in Callers :
        /\ u = t + 1
        /\ op[t] = "get" /\ op[u] = "get"
        /\ SameArguments(t, u)
        /\ stored[t].set
        /\ Unexpired(t, u)
        /\ args[u].bypass
        /\ pc[u] = "done"
        /\ result[u].kind = "return"
        /\ result[u] # result[t]
        /\ http_calls[t] = 1 /\ http_calls[u] = 1

\* the API key or the format marker occurs in a cache key
KeyLeaks(k) == HasKey(k.params, "key") \/ HasKey(k.params, "format")

\* C7: get computes the cache key, for the lookup and for the store, from the
\* params as the caller supplied them: the API key and format=json that
\* _request attaches are never part of it, and the key a response is stored
\* under is the key the next identical call looks up.
C7_KeyFromCallerParams ==
    /\ \A t \in Callers :
           /\ lookup[t].result \in {"hit", "miss"} => lookup[t].key = KeyOf(args[t])
           /\ stored[t].set => stored[t].key = KeyOf(args[t])
    /\ \A k \in DOMAIN _cache : ~KeyLeaks(k)
    /\ \A t, u \in Callers :
           (/\ SameArguments(t, u)
            /\ stored[t].set
            /\ lookup[u].result \in {"hit", "miss"})
           => stored[t].key = lookup[u].key

\* a get with params stored its response after _request had added the API key
\* and the format to the caller's dict, and the next identical get hit
C7_Witness ==
    \E t, u \in Callers :
        /\ t < u
        /\ SameArguments(t, u)
        /\ Truthy(args[t].params)
        /\ stored[t].set
        /\ HasKey(heap[t].P.items, "key")
        /\ HasKey(heap[t].P.items, "format")
        /\ lookup[u].result = "hit"

---------------------------------------------------------------------------
(* Properties of SteamClient._request: retries and terminal failures *)

Is503(o) == Is5xx(o) /\ o.status = 503

\* a status of the 4xx class other than 429
HasTerminalStatus(o) ==
    o.kind = "response" /\ o.status >= 400 /\ o.status < 500 /\ o.status # 429

\* C8: a request answered 503 on its first N-1 attempts and successfully on
\* attempt N, N <= max_retries, is still running after each 503 and returns the
\* success value after exactly N transport attempts.
C8_SuccessAfter503s ==
    \A t \in Callers :
        LET n == Len(outcomes[t]) IN
        /\ (/\ n >= 1
            /\ n < max_retries
            /\ \A i \in 1..n : Is503(outcomes[t][i]))
           => pc[t] # "done" /\ result[t] = NoResult
        /\ (/\ n >= 1
            /\ n <= max_retries
            /\ \A i \in 1..(n - 1) : Is503(outcomes[t][i])
            /\ IsSuccess(outcomes[t][n]))
           => /\ pc[t] = "done"
              /\ result[t] = Return(_normalize_response(outcomes[t][n].body))
              /\ http_calls[t] = n

\* a request was answered 503 twice and then successfully, and has returned
C8_Witness ==
    \E t \in Callers :
        /\ Len(outcomes[t]) = max_retries
        /\ \A i \in 1..(max_retries - 1) : Is503(outcomes[t][i])
        /\ IsSuccess(outcomes[t][max_retries])
        /\ result[t].kind = "return"

\* C9: a get or post answered 401, 403 or another 4xx except 429 raises
\* SteamAPIError with that status at once: no backoff sleep follows the answer
\* and no further attempt; answered so on the first attempt, the call has made
\* exactly one transport attempt.
C9_TerminalStatusRaises ==
    \A t \in Callers :
        LET n == Len(outcomes[t]) IN
        (n >= 1 /\ HasTerminalStatus(outcomes[t][n]))
        => /\ pc[t] = "done"
           /\ result[t].kind = "raise"
           /\ result[t].status = outcomes[t][n].status
           /\ http_calls[t] = n
           /\ Len(sleeps[t]) = n - 1
           /\ n = 1 => http_calls[t] = 1 /\ sleeps[t] = <<>>

\* a call was answered 401 on its first attempt and has raised
C9_Witness ==
    \E t \in Callers :
        /\ outcomes[t] = <<Response(401, FALSE, NoValue)>>
        /\ result[t].kind = "raise"
        /\ result[t].status = 401
        /\ http_calls[t] = 1

AllTransient(t) == \A i \in 1..Len(outcomes[t]) : IsTransient(outcomes[t][i])

\* what holds of a _request call in every state, for C10
BoundedAttempts(t) ==
    /\ http_calls[t] <= max_retries
    /\ Len(outcomes[t]) <= max_retries
    /\ pc[t] = "done" => result[t].kind \in {"return", "raise"}
    /\ (pc[t] = "done" /\ AllTransient(t) /\ lookup[t].result # "hit")
           => /\ http_calls[t] = max_retries
              /\ Len(outcomes[t]) = max_retries
              /\ result[t].kind = "raise"
    /\ \A i \in 1..Len(sleeps[t]) :
           (i < max_retries /\ (IsTimeout(outcomes[t][i]) \/ Is5xx(outcomes[t][i])))
               => sleeps[t][i] = 2 ^ (i - 1)

\* C10: whatever transient outcomes (timeouts, 5xx, 429) the transport gives,
\* a _request call makes at most max_retries transport attempts and then ends,
\* returning a success value or raising SteamAPIError; when every attempt
\* failed transiently it has made exactly max_retries attempts; and the sleep
\* between a timeout or 5xx on attempt a and the next attempt is 2^a seconds.
C10_BoundedRetries ==
    /\ [](\A t \in Callers : BoundedAttempts(t))
    /\ \A t \in Callers : (op[t] # "none") ~> (pc[t] = "done")

\* every attempt of a call failed transiently, by 503, timeout and 429 in
\* turn, and the call has raised
C10_Witness ==
    \E t \in Callers :
        /\ pc[t] = "done"
        /\ Len(outcomes[t]) = max_retries
        /\ Is5xx(outcomes[t][1])
        /\ IsTimeout(outcomes[t][2])
        /\ Is429(outcomes[t][3])
        /\ result[t].kind = "raise"
        /\ sleeps[t] = <<1, 2, 8>>

\* C11: a 429 is no terminal failure: on attempt a (counted from 0) the client
\* asks to sleep 2^(a+1) seconds, and while attempts remain in the budget of
\* max_retries the call goes on to another attempt and has not ended.
C11_Backoff429 ==
    \A t \in Callers :
        LET n == Len(outcomes[t]) IN
        /\ \A i \in 1..n :
               (Is429(outcomes[t][i]) /\ i <= Len(sleeps[t])) => sleeps[t][i] = 2 ^ i
        /\ (n >= 1 /\ n < max_retries /\ Is429(outcomes[t][n]))
               => /\ Len(sleeps[t]) = n
                  /\ pc[t] \in {"backoff", "wait_lock", "sleep_limiter", "await_http"}
                  /\ result[t] = NoResult
                  /\ pc[t] = "backoff" => wake_at[t] - now <= 2 ^ n
                  /\ pc[t] = "await_http" => http_calls[t] = n + 1

\* a call was answered 429 twice, slept 2 and then 4 seconds, and its third
\* attempt is with the transport
C11_Witness ==
    \E t \in Callers :
        /\ Len(outcomes[t]) = 2
        /\ Is429(outcomes[t][1])
        /\ Is429(outcomes[t][2])
        /\ sleeps[t] = <<2, 4>>
        /\ pc[t] = "await_http"
        /\ http_calls[t] = 3

\* the exception that stands for the failure of an attempt answered o
FailureOf(o) ==
    IF IsTimeout(o) THEN Exc("timeout", NoStatus) ELSE Exc("status", o.status)

\* C12: when _request has used up its attempts, the SteamAPIError it raises
\* describes the failure of the last attempt, whatever the mix of timeouts,
\* 5xx and 429 responses.
C12_LastFailureReported ==
    \A t \in Callers :
        result[t].cause = "exhausted"
        => result[t].last = FailureOf(outcomes[t][Len(outcomes[t])])

\* C13: a response whose content type is HTML is an error whatever its status
\* (200, 429 and 5xx too): _request raises SteamAPIError with the status of
\* the response on that attempt, with no sleep and no further attempt.
C13_HtmlRaises ==
    \A t \in Callers :
        LET n == Len(outcomes[t]) IN
        (n >= 1 /\ outcomes[t][n].kind = "response" /\ outcomes[t][n].html)
        => /\ pc[t] = "done"
           /\ result[t].kind = "raise"
           /\ result[t].status = outcomes[t][n].status
           /\ http_calls[t] = n
           /\ Len(sleeps[t]) = n - 1

\* a call was answered on its second attempt with an HTML page of status 503,
\* and has raised with that status
C13_Witness ==
    \E t \in Callers :
        /\ Len(outcomes[t]) = 2
        /\ outcomes[t][2] = Response(503, TRUE, NoValue)
        /\ result[t] = SteamAPIError("html", 503, NoneExc)
        /\ http_calls[t] = 2

---------------------------------------------------------------------------
(* Properties of TTLCache *)

\* this step is a call of op on the cache
CacheStep(o) ==
    /\ cache_history'.calls = cache_history.calls + 1
    /\ cache_call'.op = o

\* the (endpoint, parameter map) that the call made in this step names
CalledId == <<cache_call'.endpoint, ItemSet(cache_call'.params)>>
CalledKey == _make_key(cache_call'.endpoint, cache_call'.params)

\* the latest set of the called (endpoint, params) is still in force: no
\* invalidate or clear since, and its expiry not passed
SetInForce ==
    /\ CalledId \in DOMAIN cache_history.sets
    /\ cache_history.sets[CalledId].live
    /\ now <= cache_history.sets[CalledId].expires_at

\* C14: get on a key with no entry returns (False, None) and raises nothing;
\* after set(e, p, v), until the entry expires and with no later set,
\* invalidate or clear of that key, get(e, p) returns (True, v), v the value
\* set last.
C14_GetAfterSet ==
    [][CacheStep("get") =>
          /\ CalledKey \notin DOMAIN _cache =>
                 /\ ~cache_call'.hit
                 /\ cache_call'.ret = NoValue
                 /\ _cache' = _cache
          /\ SetInForce =>
                 /\ cache_call'.hit
                 /\ cache_call'.ret = cache_history.sets[CalledId].value]_vars

\* a get with params, the third call made, returned the value set last for them
C14_Witness ==
    /\ cache_call.op = "get"
    /\ cache_call.hit
    /\ cache_call.params # None
    /\ cache_call.ret = Json("dict", FALSE, "b")
    /\ cache_history.calls = 3
    /\ cache_history.hits = 1
    /\ Cardinality(DOMAIN cache_history.sets) = 1
    /\ Cardinality(DOMAIN _cache) = 1

\* the (endpoint, parameter map) of the latest call
LastCalledId == <<cache_call.endpoint, ItemSet(cache_call.params)>>

\* C15: get on a key whose entry has its expiry in the past returns
\* (False, None), adds one to the miss counter and removes the entry from the
\* map; and no get returns (True, v) from an entry whose expiry is in the past.
C15_ExpiredIsMiss ==
    [][CacheStep("get") =>
          /\ (CalledKey \in DOMAIN _cache /\ _cache[CalledKey].expires_at < now) =>
                 /\ ~cache_call'.hit
                 /\ cache_call'.ret = NoValue
                 /\ _misses' = _misses + 1
                 /\ _hits' = _hits
                 /\ _cache' = Without(_cache, {CalledKey})
          /\ cache_call'.hit =>
                 /\ CalledKey \in DOMAIN _cache
                 /\ ~(_cache[CalledKey].expires_at < now)
                 /\ cache_call'.ret = _cache[CalledKey].value]_vars

\* a get missed on an entry that had been set and had expired, and the entry
\* is gone from the map
C15_Witness ==
    /\ cache_call.op = "get"
    /\ ~cache_call.hit
    /\ LastCalledId \in DOMAIN cache_history.sets
    /\ cache_history.sets[LastCalledId].live
    /\ cache_history.sets[LastCalledId].expires_at < now
    /\ cache_history.calls = 2
    /\ _misses = 1
    /\ DOMAIN _cache = {}

\* the latest call stored an entry with a ttl of 0 or less, and this step is
\* the get of the same (endpoint, params) that follows it
GetAfterZeroTtlSet ==
    /\ cache_call.op = "set"
    /\ ~cache_call.ttl.none
    /\ cache_call.ttl.v <= 0
    /\ CacheStep("get")
    /\ CalledId = LastCalledId

\* C16: an entry stored with ttl=0, or with a negative ttl, is a miss on the
\* very next get of its key, and that miss removes it from the map.
C16_ZeroTtlMisses ==
    [][GetAfterZeroTtlSet =>
          /\ ~cache_call'.hit
          /\ CalledKey \notin DOMAIN _cache']_vars

\* C17: a get returns only a value stored under its own (endpoint, params):
\* after any sets of valueA under paramsA and valueB under other paramsB of the
\* same endpoint, get(endpoint, paramsA) that hits returns the value last set
\* under paramsA, never valueB.
C17_KeyIsolation ==
    (cache_call.op = "get" /\ cache_call.hit)
    => /\ LastCalledId \in DOMAIN cache_history.sets
       /\ cache_call.ret = cache_history.sets[LastCalledId].value

\* a get hit while the map also held, under other params of the same
\* endpoint, an unexpired entry with another value
C17_Witness ==
    /\ cache_call.op = "get"
    /\ cache_call.hit
    /\ \E id \in DOMAIN cache_history.sets :
           /\ id # LastCalledId
           /\ id[1] = cache_call.endpoint
           /\ cache_history.sets[id].live
           /\ cache_history.sets[id].expires_at > now
           /\ cache_history.sets[id].value # cache_call.ret
    /\ Cardinality(DOMAIN _cache) = 2

\* parameter maps of up to two items, in either insertion order, and None
KeyParams ==
    LET Appids == {<<"appid", v>> : v \in {"1", "2"}}
        Formats == {<<"format", "json">>}
    IN  {None, Dict(<<>>)}
        \cup {Dict(<<i>>) : i \in Appids \cup Formats}
        \cup {Dict(<<i, j>>) : i \in Appids, j \in Formats}
        \cup {Dict(<<j, i>>) : i \in Appids, j \in Formats}

KeyNames(p) == {i[1] : i \in ItemSet(p)}

\* C18: for one endpoint _make_key gives the same key to two parameter maps
\* with the same key/value pairs, whatever their insertion order, and
\* different keys to maps that differ in a value.
C18_KeyDeterminism ==
    LET p == cache_call.params
        e == cache_call.endpoint
    IN  \A q \in KeyParams :
            /\ ItemSet(p) = ItemSet(q) => _make_key(e, p) = _make_key(e, q)
            /\ (KeyNames(p) = KeyNames(q) /\ ItemSet(p) # ItemSet(q))
                   => _make_key(e, p) # _make_key(e, q)

\* a get whose params were not inserted in key order found the entry of that
\* parameter map, while an entry differing in one value was in the map too
C18_Witness ==
    /\ cache_call.op = "get"
    /\ cache_call.hit
    /\ cache_call.params = Dict(<< <<"format", "json">>, <<"appid", "1">> >>)
    /\ sort_keys(cache_call.params.items) # cache_call.params.items
    /\ _make_key("e", Dict(<< <<"appid", "2">>, <<"format", "json">> >>))
           \in DOMAIN _cache
    /\ Cardinality(DOMAIN _cache) = 2

\* C19: after any calls on the cache, of which H were gets that hit and M
\* gets that missed (on an absent key or on an expired entry), stats.hits = H
\* and stats.misses = M, whatever sets, invalidates and clears came between;
\* and hit_rate is 0.0 when H + M = 0.
C19_HitMissAccounting ==
    /\ stats.hits = cache_history.hits
    /\ stats.misses = cache_history.misses
    /\ cache_history.hits + cache_history.misses = 0 => stats.hit_rate = 0

\* one get hit, one get missed on an entry that had expired, and the hit rate
\* is 50.0
C19_Witness ==
    /\ cache_history.hits = 1
    /\ cache_history.misses = 1
    /\ cache_call.op = "get"
    /\ ~cache_call.hit
    /\ LastCalledId \in DOMAIN cache_history.sets
    /\ cache_history.sets[LastCalledId].live
    /\ stats.hit_rate = 500

\* C20: invalidate(endpoint, params) returns True exactly when the map held
\* an entry for the key just before the call; afterwards the map holds none
\* for the key and every other entry is as it was.
C20_InvalidateFrame ==
    [][CacheStep("invalidate") =>
          /\ cache_call'.removed <=> CalledKey \in DOMAIN _cache
          /\ CalledKey \notin DOMAIN _cache'
          /\ _cache' = Without(_cache, {CalledKey})
          /\ _hits' = _hits /\ _misses' = _misses]_vars

\* invalidate removed the entry of its key, unexpired, and left the other
\* entry of the map in place
C20_Witness ==
    /\ cache_call.op = "invalidate"
    /\ cache_call.removed
    /\ cache_history.sets[LastCalledId].expires_at > now
    /\ _make_key(cache_call.endpoint, cache_call.params) \notin DOMAIN _cache
    /\ Cardinality(DOMAIN _cache) = 1

\* no set made so far is still in the map: each was followed by a clear, or
\* by an invalidate of its key
NothingSet == \A i \in DOMAIN cache_history.sets : ~cache_history.sets[i].live

\* C21: clear() returns exactly the number of entries in the map just before
\* the call and leaves the map empty, so every get is a miss until a new
\* set; SteamClient.clear_cache returns the same count.
C21_ClearCountsAndEmpties ==
    [][/\ CacheStep("clear") \/ CacheStep("clear_cache") =>
              /\ cache_call'.count = Cardinality(DOMAIN _cache)
              /\ _cache' = <<>>
              /\ NothingSet'
       /\ CacheStep("get") /\ NothingSet =>
              /\ ~cache_call'.hit
              /\ cache_call'.ret = NoValue]_vars

\* clear returned 2 for a map of two entries, one of them already expired,
\* and left the map empty
C21_Witness ==
    /\ cache_call.op = "clear"
    /\ cache_call.count = 2
    /\ _cache = <<>>
    /\ \E i \in DOMAIN cache_history.sets : cache_history.sets[i].expires_at < now
    /\ \E i \in DOMAIN cache_history.sets : cache_history.sets[i].expires_at > now

\* the entries of the map that have not expired
UnexpiredKeys(m) == {k \in DOMAIN m : ~Expired(m[k])}

\* C22: set never removes a non-expired entry stored under a different key:
\* when the map already holds max_size or more non-expired entries, a set
\* with a new key is still admitted and the size becomes greater than
\* max_size.
C22_SetKeepsUnexpired ==
    [][CacheStep("set") =>
          /\ \A k \in UnexpiredKeys(_cache) \ {CalledKey} :
                 k \in DOMAIN _cache' /\ _cache'[k] = _cache[k]
          /\ CalledKey \in DOMAIN _cache'
          /\ _cache'[CalledKey].value = cache_call'.value
          /\ Cardinality(UnexpiredKeys(_cache)) >= max_size
                 /\ CalledKey \notin DOMAIN _cache =>
                 Cardinality(DOMAIN _cache') > max_size]_vars

\* a set with a new key was admitted to a map of max_size unexpired entries:
\* the map now holds more than max_size, none of them expired
C22_Witness ==
    /\ cache_call.op = "set"
    /\ Cardinality(DOMAIN _cache) > max_size
    /\ UnexpiredKeys(_cache) = DOMAIN _cache
    /\ cache_history.calls = max_size + 1

---------------------------------------------------------------------------
(* Properties of TTLCache under concurrent callers *)

InCacheCall(t) ==
    pc[t] \in {"wait_cache_lock", "cache_locked", "sweep", "sweep_wait_lock"}

\* C23: concurrent tasks calling get, set, invalidate and clear on one
\* TTLCache all eventually complete, a set that finds the cache at capacity
\* and runs the sweep while holding the lock included.
C23_CallsComplete ==
    \A t \in Tasks : InCacheCall(t) ~> (pc[t] = "done")

\* a set that found the cache at capacity has run the sweep and returned,
\* while another task is queued for the lock and a third has been handed it
C23_Witness ==
    /\ cache_access.op = "sweep"
    /\ pc[cache_access.task] = "done"
    /\ \E t \in Tasks : pc[t] = "wait_cache_lock" /\ _lock.owner = t
    /\ \E t \in Tasks : pc[t] = "wait_cache_lock" /\ _lock.waiters = <<t>>

\* C24: every operation of TTLCache that reads or mutates the map or the
\* hit/miss counters (get, set, invalidate, clear, the expired-entry sweep
\* and the stats read) executes while holding the cache's lock.
C24_AccessUnderLock ==
    cache_access.op # "none" => cache_access.holder = cache_access.task

---------------------------------------------------------------------------
(* Properties of post, get_raw, get_store_api and the convenience methods *)

\* this step is taken by a call of o
StepOf(o) ==
    \E t \in Tasks :
        /\ op'[t] = o
        /\ \/ pc'[t] # pc[t]
           \/ http_calls'[t] # http_calls[t]
           \/ outcomes'[t] # outcomes[t]

\* the call of o that task t made has ended
Ended(t, o) == op[t] = o /\ pc[t] = "done"

\* C25: post never reads from and never writes to the cache: after any post,
\* successful or failed, the map and the hit/miss counters are as before, and
\* a post always reaches the transport, even when an identical get response
\* is cached.
C25_PostLeavesCache ==
    [][/\ StepOf("post") => UNCHANGED <<_cache, _hits, _misses>>
       /\ \A t \in Tasks : Ended(t, "post")' =>
              /\ lookup'[t] = NoLookup
              /\ ~stored'[t].set
              /\ http_calls'[t] >= 1
              /\ outcomes'[t] # <<>>]_vars

\* a post has returned the transport's answer "b" while the cache holds,
\* unexpired, the answer "a" of an identical get, which it still holds
C25_Witness ==
    \E t, u \in Tasks :
        /\ Ended(u, "get") /\ stored[u].set
        /\ Ended(t, "post") /\ u \in done_before[t]
        /\ args[t].endpoint = args[u].endpoint /\ args[t].params = args[u].params
        /\ result[t] = Return(Json("dict", FALSE, "b"))
        /\ http_calls[t] = 1
        /\ stored[u].key \in DOMAIN _cache
        /\ _cache[stored[u].key].value = Json("dict", FALSE, "a")
        /\ ~Expired(_cache[stored[u].key])

\* the dict a call handed to the transport
SentParams(t) == heap[t][refs[t].params]

\* the items of the params the caller passed, None standing for no item
CallerItems(t) == args[t].params.items

\* C26: get_raw acquires the rate limiter exactly once and then performs
\* exactly one transport call without adding the API key, and it never reads
\* or writes the cache; two identical get_raw calls always produce two
\* transport calls.
C26_RawPassthrough ==
    [][/\ StepOf("get_raw") => UNCHANGED <<_cache, _hits, _misses>>
       /\ \A t \in Tasks : op'[t] = "get_raw" =>
              /\ SentParams(t)' = Dict(CallerItems(t)')
              /\ lookup'[t] = NoLookup
              /\ ~stored'[t].set
              /\ http_calls'[t] <= acquired'[t]
              /\ pc'[t] = "await_http" => acquired'[t] = 1 /\ http_calls'[t] = 1
              /\ pc'[t] = "done" =>
                     /\ acquired'[t] = 1 /\ http_calls'[t] = 1
                     /\ Len(outcomes'[t]) = 1]_vars

\* two identical get_raw calls have returned, each after one transport call
C26_Witness ==
    \E t, u \in Tasks :
        /\ t # u
        /\ Ended(t, "get_raw") /\ Ended(u, "get_raw")
        /\ SameArguments(t, u)
        /\ Truthy(args[t].params)
        /\ result[t].kind = "return" /\ result[u] = result[t]
        /\ http_calls[t] = 1 /\ http_calls[u] = 1

\* the params of a get_store_api call as they reach the cache and the
\* transport: the caller's without a "key" item, None standing for {}
StoreParams(t) == Dict(DictPop(CallerItems(t), "key"))

\* the key store.<endpoint> with the params of the call
StoreKeyOf(t) == _make_key(<<"store", args[t].endpoint>>, StoreParams(t))

\* the latest call, ended before call t began, that stored under t's store key
LatestStoreUnder(t) ==
    LET S == {u \in done_before[t] : stored[u].set /\ stored[u].key = StoreKeyOf(t)}
    IN  IF S = {} THEN NoTask ELSE CHOOSE u \in S : \A v \in S : v <= u

\* C27: get_store_api has the cache-aside behaviour of get under the key
\* store.<endpoint>: on a hit without bypass_cache it performs no transport
\* call and no limiter acquire; on a miss or with bypass_cache it acquires the
\* limiter once, performs exactly one transport call without the API key and
\* with no retry, stores a successful result under store.<endpoint> with the
\* TTL of the endpoint name, and on an HTTP error raises SteamAPIError and
\* stores nothing.
C27_StoreCacheAside ==
    \A t \in Callers : op[t] = "get_store_api" =>
        LET u == LatestStoreUnder(t)
            cached == u # NoTask /\ Unexpired(u, t)
        IN
        /\ lookup[t].key = StoreKeyOf(t)
        /\ lookup[t].result = "skipped" <=> (args[t].bypass \/ ~enable_cache)
        /\ lookup[t].result = "hit" <=> (~args[t].bypass /\ enable_cache /\ cached)
        /\ lookup[t].result = "hit" =>
               /\ pc[t] = "done"
               /\ result[t] = Return(stored[u].value)
               /\ http_calls[t] = 0 /\ acquired[t] = 0
               /\ ~stored[t].set
        /\ lookup[t].result # "hit" =>
               /\ SentParams(t) = StoreParams(t)
               /\ ~HasKey(SentParams(t).items, "key")
               /\ http_calls[t] <= 1 /\ acquired[t] = http_calls[t]
               /\ pc[t] = "done" =>
                      /\ http_calls[t] = 1
                      /\ Len(outcomes[t]) = 1
                      /\ IsSuccess(outcomes[t][1]) =>
                             /\ result[t] = Return(outcomes[t][1].body)
                             /\ enable_cache =>
                                    /\ stored[t].set
                                    /\ stored[t].key = StoreKeyOf(t)
                                    /\ stored[t].value = outcomes[t][1].body
                                    /\ stored[t].ttl = _get_cache_ttl("", args[t].endpoint)
                      /\ ~IsSuccess(outcomes[t][1]) =>
                             /\ result[t].kind = "raise"
                             /\ result[t].cause = "store_api_error"
                             /\ ~stored[t].set

\* a get_store_api call whose params held an API key stored its response, and
\* the next call, made without the key, was served from the cache with no
\* transport call
C27_Witness ==
    \E t, u \in Callers :
        /\ u = LatestStoreUnder(t)
        /\ op[t] = "get_store_api" /\ op[u] = "get_store_api"
        /\ HasKey(CallerItems(u), "key") /\ ~HasKey(CallerItems(t), "key")
        /\ http_calls[u] = 1 /\ stored[u].ttl = APP_DETAILS
        /\ lookup[t].result = "hit"
        /\ http_calls[t] = 0
        /\ result[t] = result[u]

\* C28: get_player_summaries called with more than 100 identifiers raises
\* ValueError before any cache lookup, rate-limiter acquire or transport
\* call; with 100 or fewer identifiers it proceeds to get.
C28_IdCapChecked ==
    \A t \in Tasks : op[t] = "get_player_summaries" =>
        LET n == Len(args[t].input) IN
        /\ n > 100 =>
               /\ pc[t] = "done"
               /\ result[t] = ValueError
               /\ lookup[t] = NoLookup
               /\ _hits = 0 /\ _misses = 0
               /\ acquired[t] = 0 /\ http_calls[t] = 0
               /\ outcomes[t] = <<>>
        /\ n <= 100 =>
               /\ result[t].cause # "value_error"
               /\ lookup[t].result \in {"hit", "miss", "skipped"}
               /\ lookup[t].key =
                      _make_key(cache_key(SummariesEndpoint),
                                Dict(<< <<"steamids", Join(args[t].input)>> >>))
               /\ pc[t] = "done" /\ lookup[t].result # "hit" => http_calls[t] >= 1

\* a call with 101 identifiers has raised ValueError with nothing looked up,
\* acquired or sent
C28_Witness ==
    \E t \in Tasks :
        /\ op[t] = "get_player_summaries"
        /\ Len(args[t].input) = 101
        /\ result[t] = ValueError
        /\ pc[t] = "done"
        /\ http_calls[t] = 0

\* the response reports success == 1
ReportsSuccess(j) ==
    LET d == ResultDict(j) IN
    /\ "response" \in DOMAIN d
    /\ "success" \in DOMAIN d.response
    /\ d.response.success = 1

\* the call of task t got no response from its get: the get raised
GetRaised(t) ==
    /\ lookup[t].result # "hit"
    /\ ~IsSuccess(outcomes[t][Len(outcomes[t])])

\* the response that the get of task t returned: the cached one on a hit,
\* else the body of the last answer
GotResponse(t) ==
    IF lookup[t].result = "hit" THEN _cache[lookup[t].key].value
    ELSE _normalize_response(outcomes[t][Len(outcomes[t])].body)

\* C29: resolve_vanity_url never propagates an API error: whenever the
\* underlying get raises SteamAPIError (authorization failure, HTML response,
\* retry exhaustion or transport failure) it returns None, and it returns the
\* steamid only when the response reports success == 1.
C29_VanityErrorsSwallowed ==
    \A t \in Tasks : Ended(t, "resolve_vanity_url") =>
        /\ result[t].kind = "return"
        /\ GetRaised(t) => result[t].value = NoValue
        /\ result[t].value # NoValue =>
               /\ ~GetRaised(t)
               /\ ReportsSuccess(GotResponse(t))
               /\ result[t].value = Str(ResultDict(GotResponse(t)).response.steamid)
        /\ ~GetRaised(t) /\ ReportsSuccess(GotResponse(t)) =>
               result[t].value = Str(SteamId)

\* the get of a resolve_vanity_url call used up its attempts, the last one on
\* a 429, and the call returned None
C29_Witness ==
    \E t \in Tasks :
        /\ Ended(t, "resolve_vanity_url")
        /\ Len(outcomes[t]) = max_retries
        /\ Is5xx(outcomes[t][1])
        /\ Is429(outcomes[t][max_retries])
        /\ result[t] = Return(NoValue)

\* the name that decides the ttl of what call t stores: the method of a get,
\* the endpoint of a get_store_api
PolicyName(t) ==
    IF op[t] = "get_store_api" THEN args[t].endpoint ELSE args[t].endpoint[2]

\* C30: a response stored by get or get_store_api is stored with the TTL
\* that the policy table assigns to its method or store endpoint name (3600
\* for appdetails, GetSchemaForGame and GetGlobalAchievementPercentagesForApp;
\* 300 for GetPlayerSummaries, GetOwnedGames, GetRecentlyPlayedGames and
\* GetNewsForApp; 60 for GetNumberOfCurrentPlayers) and with the default 300
\* for every unlisted name.
C30_PolicyTtl ==
    \A t \in Tasks : stored[t].set =>
        LET name == PolicyName(t)
            ttl == IF name \in {"appdetails", "GetSchemaForGame",
                                "GetGlobalAchievementPercentagesForApp"}
                   THEN 3600
                   ELSE IF name \in {"GetPlayerSummaries", "GetOwnedGames",
                                     "GetRecentlyPlayedGames", "GetNewsForApp"}
                   THEN 300
                   ELSE IF name = "GetNumberOfCurrentPlayers" THEN 60
                   ELSE 300
        IN  /\ stored[t].ttl = ttl
            /\ stored[t].key \in DOMAIN _cache
            /\ _cache[stored[t].key].expires_at = stored[t].at + ttl

\* a get_store_api call for appdetails stored its response for 3600 seconds
C30_Witness ==
    \E t \in Tasks :
        /\ op[t] = "get_store_api"
        /\ args[t].endpoint = "appdetails"
        /\ stored[t].set
        /\ _cache[stored[t].key].expires_at = now + 3600

---------------------------------------------------------------------------
(* Properties of the cached decorator, of retries and of concurrent gets *)

\* call t finds, unexpired, what the latest earlier call with its arguments
\* stored
Served(t) ==
    /\ enable_cache
    /\ ~args[t].bypass
    /\ LatestStore(t) # NoTask
    /\ Unexpired(LatestStore(t), t)

\* what that earlier call returned
CachedResult(t) == result[LatestStore(t)]

\* C31: a method wrapped by the cached decorator executes the wrapped function
\* on the first call, and on a second call with the same arguments returns the
\* cached result without executing it while the entry is unexpired; a call
\* with bypass_cache=True always executes the function, and so does every
\* call when the object has no _cache.
C31_DecoratorCacheAside ==
    [][\A t \in Tasks :
           op'[t] = "cached" /\ pc[t] = "idle" /\ pc'[t] # "idle" =>
               /\ IF Served(t)'
                  THEN /\ call_count' = call_count
                       /\ pc'[t] = "done"
                       /\ lookup'[t].result = "hit"
                       /\ result'[t] = CachedResult(t)'
                  ELSE /\ call_count' = call_count + 1
                       /\ pc'[t] = "in_func"
               /\ done_before'[t] = {} => call_count' = call_count + 1
               /\ args'[t].bypass \/ ~enable_cache =>
                      /\ call_count' = call_count + 1
                      /\ lookup'[t].result = "skipped"]_vars

\* the second call of a method with the arguments of the first was served the
\* first one's result: the wrapped function ran once
C31_Witness ==
    \E t, u \in Tasks :
        /\ u = t - 1
        /\ op[u] = "cached" /\ op[t] = "cached"
        /\ SameArguments(u, t)
        /\ pc[u] = "done" /\ pc[t] = "done"
        /\ lookup[t].result = "hit"
        /\ result[t] = result[u]
        /\ call_count = 1

\* C32: a set that finds the map at or above max_size removes every entry
\* whose expiry is in the past before it inserts, so that right after it no
\* entry other than the one just written is expired; a set that finds the map
\* below max_size removes no entry at all, expired or not.
C32_SetSweepsAtCapacity ==
    [][CacheStep("set") =>
          /\ Cardinality(DOMAIN _cache) >= max_size =>
                 /\ DOMAIN _cache' = UnexpiredKeys(_cache) \cup {CalledKey}
                 /\ \A k \in DOMAIN _cache' \ {CalledKey} :
                        ~(now' > _cache'[k].expires_at)
          /\ Cardinality(DOMAIN _cache) < max_size =>
                 /\ DOMAIN _cache' = DOMAIN _cache \cup {CalledKey}
                 /\ \A k \in DOMAIN _cache \ {CalledKey} : _cache'[k] = _cache[k]]_vars

\* three sets of three keys, the first with a ttl that had passed: the third
\* found the map at max_size and swept the first one's entry
C32_Witness ==
    /\ cache_call.op = "set"
    /\ cache_history.calls = max_size + 1
    /\ Cardinality(DOMAIN cache_history.sets) = max_size + 1
    /\ Cardinality(DOMAIN _cache) = max_size
    /\ \E i \in DOMAIN cache_history.sets : cache_history.sets[i].expires_at < now
    /\ UnexpiredKeys(_cache) = DOMAIN _cache

\* the calls that reach the transport
Transported(o) == o \in {"get", "post", "get_store_api", "get_raw"}

\* C33: every transport call made by get, post, get_store_api or get_raw is
\* preceded by a rate-limiter grant of its own: no task has issued more
\* transport calls than it has obtained grants, and every attempt of a call,
\* the first and each retry inside _request, has obtained a new grant when
\* its request is in flight.
C33_GrantBeforeTransport ==
    \A t \in Tasks :
        /\ http_calls[t] <= acquired[t]
        /\ Transported(op[t]) =>
               /\ Len(outcomes[t]) <= http_calls[t]
               /\ pc[t] = "await_http" =>
                      /\ http_calls[t] = Len(outcomes[t]) + 1
                      /\ acquired[t] = Len(outcomes[t]) + 1

\* a get has been answered 503 twice and is on its third attempt, its third
\* grant obtained after a sleep in the limiter
C33_Witness ==
    \E t \in Tasks :
        /\ op[t] = "get" /\ pc[t] = "await_http"
        /\ Len(outcomes[t]) = 2
        /\ Is503(outcomes[t][1]) /\ Is503(outcomes[t][2])
        /\ acquired[t] = 3 /\ http_calls[t] = 3
        /\ now > start_time[t]

\* task t takes this step of its call
StepBy(t) ==
    \/ pc'[t] # pc[t]
    \/ http_calls'[t] # http_calls[t]
    \/ outcomes'[t] # outcomes[t]

\* this step leaves under key k an entry that was not there before it
Written(k) ==
    /\ k \in DOMAIN _cache'
    /\ k \notin DOMAIN _cache \/ _cache'[k] # _cache[k]

\* C34: a get that ends by raising (terminal status, HTML response, transport
\* error or retry exhaustion) never writes to the cache: no step of it creates
\* or replaces an entry, under its key or any other, so the map never holds an
\* error outcome that a later get could be served.
C34_RaiseWritesNothing ==
    [][/\ \A t \in Tasks :
              op'[t] = "get" /\ StepBy(t) /\ (\E k \in DOMAIN _cache' : Written(k)) =>
                  /\ pc'[t] = "done"
                  /\ result'[t].kind = "return"
                  /\ \A k \in DOMAIN _cache' : Written(k) => k = KeyOf(args'[t])
       /\ \A t \in Tasks :
              op'[t] = "get" /\ pc'[t] = "done" /\ result'[t].kind = "raise" =>
                  ~stored'[t].set
       /\ \A k \in DOMAIN _cache' : _cache'[k].value # NoValue]_vars

\* a get with bypass_cache, for a key the cache holds, has used up its
\* attempts and raised; the entry is still the one that was there
C34_Witness ==
    \E t \in Tasks :
        /\ Ended(t, "get")
        /\ args[t].bypass
        /\ result[t].cause = "exhausted"
        /\ ~stored[t].set
        /\ KeyOf(args[t]) \in DOMAIN _cache
        /\ _cache = Fetched

\* call t was made with the dict object that the earlier call u was made with
SameObject(u, t) ==
    /\ u \in done_before[t]
    /\ args[t].endpoint = args[u].endpoint
    /\ args[t].params = heap[u].P

\* C35: get and post do not alter the params mapping object passed by the
\* caller: when the call returns the object holds exactly the entries it held
\* before, so a caller that passes the same object to a second get, while the
\* first response is cached, obtains a cache hit.
C35_ParamsUntouched ==
    /\ \A t \in Tasks :
           Ended(t, "get") \/ Ended(t, "post") => heap[t].P = args[t].params
    /\ \A t, u \in Tasks :
           (/\ Ended(u, "get") /\ stored[u].set
            /\ op[t] = "get" /\ ~args[t].bypass
            /\ SameObject(u, t)
            /\ u = t - 1
            /\ Unexpired(u, t))
           => lookup[t].result = "hit"

\* t and u are gets with identical arguments, neither with bypass_cache, and
\* each looked up the cache before the other had stored: neither had ended
\* when the other began, and both missed
ConcurrentMisses(t, u) ==
    /\ t # u
    /\ op[t] = "get" /\ op[u] = "get"
    /\ SameArguments(t, u)
    /\ lookup[t].result = "miss" /\ lookup[u].result = "miss"
    /\ u \notin done_before[t] /\ t \notin done_before[u]

\* C36: the client does not coalesce concurrent misses: two tasks that call
\* get with identical arguments and both look up the cache before either has
\* stored each perform their own rate-limiter acquire and transport call, and
\* when the second of them has finished the cache holds, under the one key,
\* the result written by the set that ran last.
C36_NoCoalescing ==
    [][\A t, u \in Tasks :
           ConcurrentMisses(t, u)' =>
               /\ pc'[t] = "done" => acquired'[t] = 1 /\ http_calls'[t] = 1
               /\ lookup'[t].key = lookup'[u].key
               /\ pc[t] # "done" /\ pc'[t] = "done" /\ pc[u] = "done" =>
                      /\ stored'[t].set /\ stored'[u].set
                      /\ stored'[t].key = stored'[u].key
                      /\ _cache'[stored'[t].key] =
                             CacheEntry(result'[t].value,
                                        now + _get_cache_ttl(args'[t].endpoint[2], ""))]_vars

\* two concurrent gets with identical arguments both missed and each fetched:
\* the first to finish got "a", the second "b", and the cache holds "b"
C36_Witness ==
    \E t, u \in Tasks :
        /\ ConcurrentMisses(t, u)
        /\ pc[t] = "done" /\ pc[u] = "done"
        /\ http_calls[t] = 1 /\ http_calls[u] = 1
        /\ result[u] = Return(Json("dict", FALSE, "a"))
        /\ result[t] = Return(Json("dict", FALSE, "b"))
        /\ stored[u].at < stored[t].at
        /\ _cache[stored[t].key].value = Json("dict", FALSE, "b")
        /\ _misses = 2

\* the get that follows a successful get with bypass_cache, asks for the same
\* thing without bypass_cache, and begins before the stored response expires,
\* is served the value the bypassing call fetched
ServedAfterBypass ==
    \A t, u \in Tasks :
        (/\ u = t - 1
         /\ Ended(u, "get") /\ args[u].bypass /\ result[u].kind = "return"
         /\ op[t] = "get" /\ ~args[t].bypass
         /\ SameArguments(u, t)
         /\ Unexpired(u, t))
        => /\ lookup[t].result = "hit"
           /\ Ended(t, "get")
           /\ result[t] = result[u]
           /\ http_calls[t] = 0

\* C37: with the cache enabled, a successful get with bypass_cache skips only
\* the lookup: it leaves the hit and miss counters unchanged and still stores
\* its fresh result, replacing any entry under the key, so that the next get
\* without bypass_cache, made while that result is unexpired, returns the
\* value the bypassing call fetched.
C37_BypassStillStores ==
    [][/\ \A t \in Tasks :
              op'[t] = "get" /\ args'[t].bypass /\ StepBy(t) =>
                  /\ UNCHANGED <<_hits, _misses>>
                  /\ lookup'[t].result = "skipped"
                  /\ pc'[t] = "done" => http_calls'[t] >= 1
                  /\ pc'[t] = "done" /\ result'[t].kind = "return" =>
                         /\ stored'[t].set
                         /\ KeyOf(args'[t]) \in DOMAIN _cache'
                         /\ _cache'[KeyOf(args'[t])] =
                                CacheEntry(result'[t].value,
                                           now + _get_cache_ttl(args'[t].endpoint[2], ""))
       /\ ServedAfterBypass']_vars

\* the cache held "a" for the key; a get with bypass_cache fetched "b", and
\* the get after it was served "b" from the cache: one hit, no miss
C37_Witness ==
    \E t, u \in Tasks :
        /\ u = t - 1
        /\ Ended(u, "get") /\ args[u].bypass
        /\ result[u] = Return(Json("dict", FALSE, "b"))
        /\ Ended(t, "get") /\ ~args[t].bypass
        /\ SameArguments(u, t)
        /\ lookup[t].result = "hit"
        /\ result[t] = Return(Json("dict", FALSE, "b"))
        /\ Fetched[stored[u].key].value = Json("dict", FALSE, "a")
        /\ _hits = 1 /\ _misses = 0

\* C38: a request that exhausts its attempt budget performs no backoff sleep
\* after its final attempt: once the max_retries-th attempt has failed, by
\* timeout, 5xx or 429, _request raises without sleeping again.
C38_NoSleepAfterFinalAttempt ==
    \A t \in Tasks :
        Len(outcomes[t]) = max_retries =>
            /\ pc[t] # "backoff"
            /\ Len(sleeps[t]) = max_retries => sleeps[t][max_retries] = 0

\* the entries of the map whose expiry has passed and that no call has purged
ExpiredKeys(m) == DOMAIN m \ UnexpiredKeys(m)

\* C39: invalidate and clear act on entries regardless of expiry: invalidate
\* of a key whose entry has expired and is still in the map returns true,
\* although a get of that key would be a miss; the count that clear returns
\* and stats.size include the expired entries still in the map.
C39_ExpiredStillCounted ==
    [][/\ CacheStep("invalidate") /\ CalledKey \in ExpiredKeys(_cache) =>
              /\ cache_call'.removed
              /\ CalledKey \notin DOMAIN _cache'
              /\ ~TTLCache_get(cache_call'.endpoint, cache_call'.params).hit
       /\ CacheStep("clear") =>
              cache_call'.count =
                  Cardinality(UnexpiredKeys(_cache)) + Cardinality(ExpiredKeys(_cache))
       /\ stats.size =
              Cardinality(UnexpiredKeys(_cache)) + Cardinality(ExpiredKeys(_cache))]_vars

\* invalidate returned true for a key that was set with a ttl already passed
\* and never looked up since
C39_Witness ==
    /\ cache_call.op = "invalidate"
    /\ cache_call.removed
    /\ LastCalledId \in DOMAIN cache_history.sets
    /\ cache_history.sets[LastCalledId].expires_at < 0
    /\ cache_history.hits + cache_history.misses = 0

=============================================================================
